---- MODULE Spec2Model ----
(***************************************************************************)
(* Query-understanding and dispatch pipeline of the PartSelect agent.      *)
(*                                                                         *)
(*   validators.py   is_in_scope, extract_intent and their tables          *)
(*   part_agent.py   PartSelectAgent: process_query, _run_tool_for_intent, *)
(*                   _extract_parameters, the context resolver and the     *)
(*                   conversation context                                  *)
(*                                                                         *)
(* Texts are TLA+ strings, whose characters are U+0001 to U+00FF; the      *)
(* Python string operations the code uses (lower, strip, split, in,        *)
(* startswith, endswith, re.search, re.findall) are operators on strings   *)
(* defined below, and the character classes are those of Python on these   *)
(* characters.                                                             *)
(***************************************************************************)
EXTENDS Integers, Sequences, FiniteSets, Bags, TLC

(***************************************************************************)
(* Python string operations                                                *)
(***************************************************************************)
None == "<None>"

Ch(s, i) == SubSeq(s, i, i)

UpperSeq == "ABCDEFGHIJKLMNOPQRSTUVWXYZ"
LowerSeq == "abcdefghijklmnopqrstuvwxyz"
DigitSeq == "0123456789"
\* the cased letters above U+007F, and what str.lower makes of them
LatinUpperSeq == "ÀÁÂÃÄÅÆÇÈÉÊËÌÍÎÏÐÑÒÓÔÕÖØÙÚÛÜÝÞ"
LatinLowerSeq == "àáâãäåæçèéêëìíîïðñòóôõöøùúûüýþ"
\* the other characters above U+007F that \w matches
LatinWordSeq == "ª²³µ¹º¼½¾ßÿ"
\* U+000B, U+001C to U+001F, U+0085 and U+00A0
LatinSpaceSeq == " "

UpperChars == {Ch(UpperSeq, i) : i \in 1..26}
LowerChars == {Ch(LowerSeq, i) : i \in 1..26}
\* \d: the decimal digits
DigitChars == {Ch(DigitSeq, i) : i \in 1..10}
LetterChars == UpperChars \cup LowerChars
AlnumChars == LetterChars \cup DigitChars
UpperAlnumChars == UpperChars \cup DigitChars
\* \w: the alphanumeric characters and the underscore
WordChars ==
    AlnumChars \cup {"_"}
        \cup {Ch(LatinUpperSeq, i) : i \in 1..Len(LatinUpperSeq)}
        \cup {Ch(LatinLowerSeq, i) : i \in 1..Len(LatinLowerSeq)}
        \cup {Ch(LatinWordSeq, i) : i \in 1..Len(LatinWordSeq)}
\* str.isspace and \s
SpaceChars ==
    {" ", "\t", "\n", "\r", "\f"} \cup {Ch(LatinSpaceSeq, i) : i \in 1..Len(LatinSpaceSeq)}

ToLower ==
    [c \in UpperChars \cup {Ch(LatinUpperSeq, i) : i \in 1..Len(LatinUpperSeq)} |->
        IF c \in UpperChars
        THEN Ch(LowerSeq, CHOOSE i \in 1..26 : Ch(UpperSeq, i) = c)
        ELSE Ch(LatinLowerSeq, CHOOSE i \in 1..Len(LatinUpperSeq) : Ch(LatinUpperSeq, i) = c)]

RECURSIVE lower(_)
lower(s) ==
    IF s = "" THEN ""
    ELSE (IF Head(s) \in DOMAIN ToLower THEN ToLower[Head(s)] ELSE Head(s)) \o lower(Tail(s))

\* p in s
Contains(s, p) ==
    \E i \in 1..(Len(s) - Len(p) + 1) : SubSeq(s, i, i + Len(p) - 1) = p

ContainsAny(s, ps) == \E p \in ps : Contains(s, p)

startswith(s, p) == Len(p) <= Len(s) /\ SubSeq(s, 1, Len(p)) = p

endswith(s, p) == Len(p) <= Len(s) /\ SubSeq(s, Len(s) - Len(p) + 1, Len(s)) = p

\* Length of the longest run of characters of class cls that starts at position i of s.
RECURSIVE RunLen(_, _, _)
RunLen(s, i, cls) ==
    IF i > Len(s) \/ Ch(s, i) \notin cls THEN 0 ELSE 1 + RunLen(s, i + 1, cls)

Min(a, b) == IF a <= b THEN a ELSE b

\* s.lstrip()
RECURSIVE lstrip(_)
lstrip(s) == IF s # "" /\ Head(s) \in SpaceChars THEN lstrip(Tail(s)) ELSE s

\* s.rstrip()
RECURSIVE rstrip(_)
rstrip(s) ==
    IF s # "" /\ Ch(s, Len(s)) \in SpaceChars THEN rstrip(SubSeq(s, 1, Len(s) - 1)) ELSE s

\* s.strip()
strip(s) == rstrip(lstrip(s))

\* s.split(): the whitespace-separated tokens, left to right
RECURSIVE TokenLen(_, _)
TokenLen(s, i) ==
    IF i > Len(s) \/ Ch(s, i) \in SpaceChars THEN 0 ELSE 1 + TokenLen(s, i + 1)

RECURSIVE split(_)
split(s) ==
    LET t == lstrip(s)
        n == TokenLen(t, 1)
    IN  IF t = "" THEN << >>
        ELSE <<SubSeq(t, 1, n)>> \o split(SubSeq(t, n + 1, Len(t)))

Range(f) == {f[i] : i \in DOMAIN f}

(***************************************************************************)
(* validators.py: tables                                                   *)
(***************************************************************************)
\* IntentType
Intents == {"lookup", "compatibility", "install", "diagnose", "order", "status", "out_of_scope"}

\* dict iteration order of INTENT_KEYWORDS
KeywordIntentOrder == <<"lookup", "compatibility", "install", "diagnose", "order", "status">>

INTENT_KEYWORDS ==
    [lookup |-> <<"find", "search", "look up", "lookup", "need", "where", "part",
                  "parts", "replacement", "get", "info", "information",
                  "details", "specs", "specifications", "price">>,
     compatibility |-> <<"compatible", "compatibility", "fit", "fits", "work with", "works with",
                  "match", "matches", "right", "correct", "appropriate", "suitable">>,
     install |-> <<"install", "replace", "installation", "installing", "replacing",
                  "put in", "setup", "set up", "mount", "assemble", "instructions", "manual",
                  "steps", "guide", "tutorial", "how do i">>,
     diagnose |-> <<"diagnose", "troubleshoot", "fix", "problem", "issue", "broken",
                  "doesn't work", "not working", "help", "error", "fault", "fails",
                  "stopped", "isn't", "won't", "doesn't", "why", "how come",
                  "troubleshooting", "diagnostic", "repair", "draining", "leaking">>,
     order |-> <<"order", "buy", "purchase", "purchasing", "checkout", "shopping cart",
                  "add to cart", "cart", "ship", "shipping", "delivery", "place order",
                  "ordering", "shop", "get">>,
     status |-> <<"status", "where is", "track", "tracking", "shipped", "delivery",
                  "arrived", "package", "order status", "when will", "my order">>]

\* dict iteration order of INTENT_PHRASES
PhraseIntentOrder == <<"lookup", "order", "install", "compatibility", "diagnose">>

INTENT_PHRASES ==
    [lookup |-> <<"need to find", "looking for", "searching for">>,
     order |-> <<"add to", "place an order", "buy a", "buy the", "purchase a", "purchase the",
                 "add to my cart", "shipping options">>,
     install |-> <<"how do i install", "how to install", "installation instructions",
                 "steps to replace", "how to replace">>,
     compatibility |-> <<"will this fit", "does this work with", "will this work with",
                 "is this compatible with">>,
     diagnose |-> <<"isn't working", "stopped working", "not working", "broken", "won't start",
                 "having problems with">>]

APPLIANCE_KEYWORDS ==
    {"refrigerator", "fridge", "freezer", "ice maker", "ice dispenser", "water dispenser",
     "water filter", "fridge drawer", "crisper", "refrigeration", "cooling", "compressor",
     "condenser", "evaporator", "freon", "coolant", "temperature control", "defrost",
     "dishwasher", "dish washer", "dish", "dishes", "rinse", "wash cycle", "spray arm",
     "detergent dispenser", "rack", "silverware basket", "drain pump", "rinse aid",
     "dishwashing", "dry cycle", "heating element", "water inlet", "float switch"}

PART_KEYWORDS ==
    {"compressor", "condenser", "evaporator", "fan", "motor", "filter", "water filter",
     "ice maker", "thermostat", "temperature control", "defrost", "heater", "drawer",
     "seal", "gasket", "shelf", "bin", "door", "hinge", "handle", "light", "switch",
     "water line", "water valve", "dispenser", "control board", "circuit board",
     "pump", "spray arm", "rack", "basket", "door latch", "soap dispenser",
     "detergent dispenser", "heating element", "water inlet valve", "drain hose",
     "float switch", "timer", "control panel", "wash arm", "rinse aid dispenser"}

APPLIANCE_BRANDS ==
    {"whirlpool", "maytag", "kitchenaid", "ge", "samsung", "lg", "bosch",
     "frigidaire", "electrolux", "kenmore", "amana", "thermador", "miele",
     "subzero", "wolf", "viking", "haier", "hotpoint", "fisher & paykel"}

OUT_OF_SCOPE_TERMS ==
    {"stove", "oven", "microwave", "washer", "dryer", "washing machine",
     "clothes", "laundry", "air conditioner", "ac unit", "hvac", "vacuum",
     "blender", "toaster", "coffee maker", "kettle", "mixer", "grill",
     "range", "bbq", "tv", "television", "computer", "laptop", "printer"}

MODEL_PREFIXES ==
    {"GDF", "GDT", "WDF", "WDT", "MDB", "PD", "LDF", "LDT", "DW", "FD",
     "RF", "WRF", "WRS", "GSS", "GSL", "GTS", "GTH", "WRX"}

(***************************************************************************)
(* validators.py: MODEL_PATTERNS.  Each pattern opens with \b followed by  *)
(* a word character, so a match begins at the start of a maximal run of    *)
(* word characters; the classes of consecutive pieces are disjoint or      *)
(* nested and the pattern closes with \b, so the greedy match at a start   *)
(* is decided by the run lengths below.                                    *)
(***************************************************************************)
WordStarts(text) ==
    {i \in 1..Len(text) : Ch(text, i) \in WordChars /\ (i = 1 \/ Ch(text, i - 1) \notin WordChars)}

\* \b after position j (the character at j is a word character)
WordEndsAt(text, j) == j = Len(text) \/ Ch(text, j + 1) \notin WordChars

\* \b[A-Z]{2,4}\d{2,4}[A-Z0-9]{0,6}\b at word start i: the match, or None
MatchPattern1(text, i) ==
    LET a == RunLen(text, i, UpperChars)
        d == RunLen(text, i + a, DigitChars)
        m == RunLen(text, i + a, UpperAlnumChars)
        j == i + a + m - 1
    IN  IF /\ a >= 2 /\ a <= 4
           /\ d >= 2
           /\ m <= Min(d, 4) + 6
           /\ WordEndsAt(text, j)
        THEN SubSeq(text, i, j) ELSE None

\* \b[A-Z]{1,2}\d{1,2}[A-Z]{1,2}\d{1,4}[A-Z]{0,2}\b at word start i: the match, or None
MatchPattern2(text, i) ==
    LET a == RunLen(text, i, UpperChars)
        b == RunLen(text, i + a, DigitChars)
        c == RunLen(text, i + a + b, UpperChars)
        d == RunLen(text, i + a + b + c, DigitChars)
        e == RunLen(text, i + a + b + c + d, UpperChars)
        j == i + a + b + c + d + e - 1
    IN  IF /\ a >= 1 /\ a <= 2
           /\ b >= 1 /\ b <= 2
           /\ c >= 1 /\ c <= 2
           /\ d >= 1 /\ d <= 4
           /\ e <= 2
           /\ WordEndsAt(text, j)
        THEN SubSeq(text, i, j) ELSE None

\* \b\d{2,3}[.][0-9]{1}\b at word start i: the match, or None
MatchPattern3(text, i) ==
    LET a == RunLen(text, i, DigitChars)
        j == i + a + 1
    IN  IF /\ a >= 2 /\ a <= 3
           /\ j <= Len(text)
           /\ Ch(text, i + a) = "."
           /\ Ch(text, j) \in DigitChars
           /\ WordEndsAt(text, j)
        THEN SubSeq(text, i, j) ELSE None

\* the matches pattern.findall(text) yields, over the three MODEL_PATTERNS
MODEL_PATTERNS(text) ==
    {m \in {MatchPattern1(text, i) : i \in WordStarts(text)}
           \cup {MatchPattern2(text, i) : i \in WordStarts(text)}
           \cup {MatchPattern3(text, i) : i \in WordStarts(text)} : m # None}

(***************************************************************************)
(* validators.py: is_in_scope                                              *)
(***************************************************************************)
\* the loop over MODEL_PATTERNS: some match starts with a known prefix or is long
HasAcceptedModelNumber(text) ==
    \E m \in MODEL_PATTERNS(text) :
        \/ \E prefix \in MODEL_PREFIXES : startswith(m, prefix)
        \/ Len(m) >= 8

\* the whole-word test applied to each out-of-scope term
HasOutOfScopeTerm(text_lower) ==
    \E term \in OUT_OF_SCOPE_TERMS :
        \/ Contains(" " \o text_lower \o " ", " " \o term \o " ")
        \/ startswith(text_lower, term \o " ")
        \/ endswith(text_lower, " " \o term)

HasInScopeAppliance(text_lower) == ContainsAny(text_lower, APPLIANCE_KEYWORDS)

\* the part keywords are consulted before the out-of-scope terms
is_in_scope_PartsFirst(text) ==
    LET text_lower == lower(text)
        has_out_of_scope == HasOutOfScopeTerm(text_lower)
        has_in_scope_appliance == HasInScopeAppliance(text_lower)
    IN  IF text_lower = "is this part compatible and how do i install it?" THEN TRUE
        ELSE IF text_lower = "i need a part" THEN FALSE
        ELSE IF HasAcceptedModelNumber(text) THEN TRUE
        ELSE IF Contains(text_lower, "heating element") /\ Contains(text_lower, "oven") THEN FALSE
        ELSE IF Contains(text_lower, "appliance") /\ ContainsAny(text_lower, APPLIANCE_BRANDS) THEN TRUE
        ELSE IF ContainsAny(text_lower, PART_KEYWORDS) THEN TRUE
        ELSE IF has_out_of_scope /\ ~has_in_scope_appliance THEN FALSE
        ELSE IF has_in_scope_appliance THEN TRUE
        ELSE IF /\ ContainsAny(text_lower, APPLIANCE_BRANDS)
                /\ (Len(split(text_lower)) > 4 \/ ContainsAny(text_lower, PART_KEYWORDS)) THEN TRUE
        ELSE IF Contains(text_lower, "part") THEN Len(split(text_lower)) > 4
        ELSE FALSE

\* a text with "part" is accepted whatever its number of words
is_in_scope_PartAlone(text) ==
    LET text_lower == lower(text)
        has_out_of_scope == HasOutOfScopeTerm(text_lower)
        has_in_scope_appliance == HasInScopeAppliance(text_lower)
    IN  IF text_lower = "is this part compatible and how do i install it?" THEN TRUE
        ELSE IF text_lower = "i need a part" THEN FALSE
        ELSE IF HasAcceptedModelNumber(text) THEN TRUE
        ELSE IF Contains(text_lower, "heating element") /\ Contains(text_lower, "oven") THEN FALSE
        ELSE IF Contains(text_lower, "appliance") /\ ContainsAny(text_lower, APPLIANCE_BRANDS) THEN TRUE
        ELSE IF has_out_of_scope /\ ~has_in_scope_appliance THEN FALSE
        ELSE IF has_in_scope_appliance THEN TRUE
        ELSE IF ContainsAny(text_lower, PART_KEYWORDS) THEN TRUE
        ELSE IF /\ ContainsAny(text_lower, APPLIANCE_BRANDS)
                /\ (Len(split(text_lower)) > 4 \/ ContainsAny(text_lower, PART_KEYWORDS)) THEN TRUE
        ELSE IF Contains(text_lower, "part") THEN TRUE
        ELSE FALSE

is_in_scope(text) ==
    LET text_lower == lower(text)
        has_out_of_scope == HasOutOfScopeTerm(text_lower)
        has_in_scope_appliance == HasInScopeAppliance(text_lower)
    IN  IF text_lower = "is this part compatible and how do i install it?" THEN TRUE
        ELSE IF text_lower = "i need a part" THEN FALSE
        ELSE IF HasAcceptedModelNumber(text) THEN TRUE
        ELSE IF Contains(text_lower, "heating element") /\ Contains(text_lower, "oven") THEN FALSE
        ELSE IF Contains(text_lower, "appliance") /\ ContainsAny(text_lower, APPLIANCE_BRANDS) THEN TRUE
        ELSE IF has_out_of_scope /\ ~has_in_scope_appliance THEN FALSE
        ELSE IF has_in_scope_appliance THEN TRUE
        ELSE IF ContainsAny(text_lower, PART_KEYWORDS) THEN TRUE
        ELSE IF /\ ContainsAny(text_lower, APPLIANCE_BRANDS)
                /\ (Len(split(text_lower)) > 4 \/ ContainsAny(text_lower, PART_KEYWORDS)) THEN TRUE
        ELSE IF Contains(text_lower, "part") THEN Len(split(text_lower)) > 4
        ELSE FALSE

(***************************************************************************)
(* validators.py: extract_intent                                           *)
(***************************************************************************)
\* the first phrase-table hit in dict order, skipping a not-working phrase
\* when the text also talks about buying; None when the loops fall through
PhraseMatch(text_lower) ==
    LET Hit(intent, k) ==
            LET phrase == INTENT_PHRASES[intent][k]
            IN  /\ Contains(text_lower, phrase)
                /\ ~(/\ phrase \in {"isn't working", "not working", "stopped working"}
                     /\ (Contains(text_lower, "buy") \/ Contains(text_lower, "purchase")))
        HasHit(n) == \E k \in DOMAIN INTENT_PHRASES[PhraseIntentOrder[n]] :
                         Hit(PhraseIntentOrder[n], k)
        hits == {n \in DOMAIN PhraseIntentOrder : HasHit(n)}
    IN  IF hits = {} THEN None
        ELSE PhraseIntentOrder[CHOOSE n \in hits : \A m \in hits : n <= m]

\* the score the keyword loop gives one intent
StrongKeywords(intent) ==
    CASE intent = "order" -> {"order", "buy", "purchase", "cart"}
      [] intent = "status" -> {"status", "track", "where is"}
      [] intent = "diagnose" -> {"fix", "troubleshoot", "not working", "problem"}
      [] intent = "install" -> {"install", "replace", "instructions"}
      [] intent = "compatibility" -> {"compatible", "fit", "work with"}
      [] OTHER -> {}

RECURSIVE SumOver(_, _)
SumOver(f, n) == IF n = 0 THEN 0 ELSE f[n] + SumOver(f, n - 1)

KeywordScore(intent, text_lower) ==
    LET kws == INTENT_KEYWORDS[intent]
        pts == [k \in DOMAIN kws |->
                   IF Contains(text_lower, kws[k])
                   THEN 1 + (IF kws[k] \in StrongKeywords(intent) THEN 2 ELSE 0)
                   ELSE 0]
    IN  SumOver(pts, Len(kws))

intent_scores(text_lower) ==
    LET base == [intent \in Range(KeywordIntentOrder) |-> KeywordScore(intent, text_lower)]
        s1 == IF Contains(text_lower, "this part") /\ base["compatibility"] > 0
              THEN [base EXCEPT !["compatibility"] = @ + 2] ELSE base
    IN  IF Contains(text_lower, "water filter") /\ Contains(text_lower, "how")
        THEN [s1 EXCEPT !["install"] = @ + 3] ELSE s1

\* the loop with "score >= max_score": the last intent holding the maximum
detected_intent_LastOfEqual(scores) ==
    LET best == {n \in DOMAIN KeywordIntentOrder :
                    /\ scores[KeywordIntentOrder[n]] > 0
                    /\ \A m \in DOMAIN KeywordIntentOrder :
                          /\ scores[KeywordIntentOrder[m]] <= scores[KeywordIntentOrder[n]]
                          /\ (m > n => scores[KeywordIntentOrder[m]] < scores[KeywordIntentOrder[n]])}
    IN  IF best = {} THEN "lookup" ELSE KeywordIntentOrder[CHOOSE n \in best : TRUE]

\* the loop "if score > max_score": the first intent, in dict order, holding the maximum
detected_intent(scores) ==
    LET best == {n \in DOMAIN KeywordIntentOrder :
                    /\ scores[KeywordIntentOrder[n]] > 0
                    /\ \A m \in DOMAIN KeywordIntentOrder :
                          /\ scores[KeywordIntentOrder[m]] <= scores[KeywordIntentOrder[n]]
                          /\ (m < n => scores[KeywordIntentOrder[m]] < scores[KeywordIntentOrder[n]])}
    IN  IF best = {} THEN "lookup" ELSE KeywordIntentOrder[CHOOSE n \in best : TRUE]

\* the rule of lines 254-255 is left out
extract_intent_WithoutAddToCartRule(text) ==
    LET t == lower(text)
        has(p) == Contains(t, p)
    IN  IF t = "is this part compatible and how do i install it?" THEN "install"
        ELSE IF ~is_in_scope(text) THEN "out_of_scope"
        ELSE IF t = "i need to find and install a water filter" THEN "lookup"
        ELSE IF t = "my dishwasher isn't working, i need to buy a new pump" THEN "diagnose"
        ELSE IF PhraseMatch(t) # None THEN PhraseMatch(t)
        ELSE IF (has("purchase") \/ has("buy")) /\ ~(has("how") \/ has("where") \/ has("this"))
             THEN "order"
        ELSE IF has("shipping") /\ has("options") THEN "order"
        ELSE IF /\ ((has("order") /\ has("my")) \/ has("track") \/ has("shipping") \/ has("delivery"))
                /\ (has("where is") \/ has("track") \/ has("when will") \/ has("status"))
             THEN "status"
        ELSE IF /\ ((has("order") /\ has("my")) \/ has("track") \/ has("shipping") \/ has("delivery"))
                /\ (has("buy") \/ has("purchase") \/ has("order") \/ has("cart"))
             THEN "order"
        ELSE IF /\ (has("not working") \/ has("isn't working") \/ has("stopped working") \/ has("problems"))
                /\ ~((has("need") /\ has("buy")) \/ (has("need") /\ has("purchase")))
             THEN "diagnose"
        ELSE IF has("how to fix") \/ has("troubleshoot") THEN "diagnose"
        ELSE IF has("how do i") /\ (has("install") \/ has("replace") \/ has("fix")) THEN "install"
        ELSE IF has("how to") /\ (has("install") \/ has("replace") \/ has("fix")) THEN "install"
        ELSE IF has("this part") /\ (has("compatible") \/ has("fit") \/ has("fits") \/ has("work") \/ has("works"))
             THEN "compatibility"
        ELSE detected_intent(intent_scores(t))

extract_intent(text) ==
    LET t == lower(text)
        has(p) == Contains(t, p)
    IN  IF t = "is this part compatible and how do i install it?" THEN "install"
        ELSE IF ~is_in_scope(text) THEN "out_of_scope"
        ELSE IF t = "i need to find and install a water filter" THEN "lookup"
        ELSE IF t = "my dishwasher isn't working, i need to buy a new pump" THEN "diagnose"
        ELSE IF PhraseMatch(t) # None THEN PhraseMatch(t)
        ELSE IF has("add") /\ has("cart") THEN "order"
        ELSE IF (has("purchase") \/ has("buy")) /\ ~(has("how") \/ has("where") \/ has("this"))
             THEN "order"
        ELSE IF has("shipping") /\ has("options") THEN "order"
        ELSE IF /\ ((has("order") /\ has("my")) \/ has("track") \/ has("shipping") \/ has("delivery"))
                /\ (has("where is") \/ has("track") \/ has("when will") \/ has("status"))
             THEN "status"
        ELSE IF /\ ((has("order") /\ has("my")) \/ has("track") \/ has("shipping") \/ has("delivery"))
                /\ (has("buy") \/ has("purchase") \/ has("order") \/ has("cart"))
             THEN "order"
        ELSE IF /\ (has("not working") \/ has("isn't working") \/ has("stopped working") \/ has("problems"))
                /\ ~((has("need") /\ has("buy")) \/ (has("need") /\ has("purchase")))
             THEN "diagnose"
        ELSE IF has("how to fix") \/ has("troubleshoot") THEN "diagnose"
        ELSE IF has("how do i") /\ (has("install") \/ has("replace") \/ has("fix")) THEN "install"
        ELSE IF has("how to") /\ (has("install") \/ has("replace") \/ has("fix")) THEN "install"
        ELSE IF has("this part") /\ (has("compatible") \/ has("fit") \/ has("fits") \/ has("work") \/ has("works"))
             THEN "compatibility"
        ELSE detected_intent(intent_scores(t))

(***************************************************************************)
(* part_agent.py: the regular expressions of _extract_parameters.          *)
(* re.search returns the leftmost match; at one start position the greedy  *)
(* match is decided by the lengths of the runs of each character class.    *)
(***************************************************************************)
MinOf(S) == CHOOSE i \in S : \A k \in S : i <= k
MaxOf(S) == CHOOSE i \in S : \A k \in S : k <= i

\* re.search(r'([a-zA-Z]{0,3}\d{4,10}[a-zA-Z0-9]{0,5})', s).group(0), or None
search_part_number(s) ==
    LET At(i) == LET a == RunLen(s, i, LetterChars)
                     d == RunLen(s, i + a, DigitChars)
                 IN  a <= 3 /\ d >= 4
        starts == {i \in 1..Len(s) : At(i)}
    IN  IF starts = {} THEN None
        ELSE LET i == MinOf(starts)
                 a == RunLen(s, i, LetterChars)
                 d == Min(RunLen(s, i + a, DigitChars), 10)
                 e == Min(RunLen(s, i + a + d, AlnumChars), 5)
             IN  SubSeq(s, i, i + a + d + e - 1)

\* re.search(r'([a-zA-Z]{2,5}\d{3,7}[a-zA-Z0-9]{0,5})', s).group(0), or None
search_model_number(s) ==
    LET At(i) == LET a == RunLen(s, i, LetterChars)
                     d == RunLen(s, i + a, DigitChars)
                 IN  a >= 2 /\ a <= 5 /\ d >= 3
        starts == {i \in 1..Len(s) : At(i)}
    IN  IF starts = {} THEN None
        ELSE LET i == MinOf(starts)
                 a == RunLen(s, i, LetterChars)
                 d == Min(RunLen(s, i + a, DigitChars), 7)
                 e == Min(RunLen(s, i + a + d, AlnumChars), 5)
             IN  SubSeq(s, i, i + a + d + e - 1)

\* re.search(r'(\d+)\s+(pcs|pieces|units|quantity)', s).group(1), or None
search_quantity(s) ==
    LET At(i) == LET d == RunLen(s, i, DigitChars)
                     w == RunLen(s, i + d, SpaceChars)
                     rest == SubSeq(s, i + d + w, Len(s))
                 IN  /\ d >= 1 /\ w >= 1
                     /\ \E unit \in {"pcs", "pieces", "units", "quantity"} : startswith(rest, unit)
        starts == {i \in 1..Len(s) : At(i)}
    IN  IF starts = {} THEN None
        ELSE LET i == MinOf(starts)
             IN  SubSeq(s, i, i + RunLen(s, i, DigitChars) - 1)

\* re.search(r'order\s+(?:number\s+)?#?(\d{6,10})', s).group(1), or None
search_order_number(s) ==
    LET DigitsFrom(i) ==
            LET w == RunLen(s, i + 5, SpaceChars)
                p == i + 5 + w
                hasNumber == startswith(SubSeq(s, p, Len(s)), "number")
                               /\ RunLen(s, p + 6, SpaceChars) >= 1
                q == IF hasNumber THEN p + 6 + RunLen(s, p + 6, SpaceChars) ELSE p
                r == IF q <= Len(s) /\ Ch(s, q) = "#" THEN q + 1 ELSE q
            IN  IF startswith(SubSeq(s, i, Len(s)), "order") /\ w >= 1
                   /\ RunLen(s, r, DigitChars) >= 6
                THEN r ELSE 0
        starts == {i \in 1..Len(s) : DigitsFrom(i) # 0}
    IN  IF starts = {} THEN None
        ELSE LET r == DigitsFrom(MinOf(starts))
             IN  SubSeq(s, r, r + Min(RunLen(s, r, DigitChars), 10) - 1)

\* re.search(r'[\w\.-]+@[\w\.-]+\.\w+', s).group(0), or None
search_email(s) ==
    LET cls == WordChars \cup {".", "-"}
        LastDot(i) ==
            LET a == RunLen(s, i, cls)
                from == i + a + 1
                b == RunLen(s, from, cls)
                dots == {p \in (from + 1)..(from + b - 1) :
                            Ch(s, p) = "." /\ p + 1 <= Len(s) /\ Ch(s, p + 1) \in WordChars}
            IN  IF a >= 1 /\ i + a <= Len(s) /\ Ch(s, i + a) = "@" /\ dots # {}
                THEN MaxOf(dots) ELSE 0
        starts == {i \in 1..Len(s) : LastDot(i) # 0}
    IN  IF starts = {} THEN None
        ELSE LET i == MinOf(starts)
                 p == LastDot(i)
             IN  SubSeq(s, i, p + RunLen(s, p + 1, WordChars))

(***************************************************************************)
(* part_agent.py: PartSelectAgent._extract_parameters                      *)
(* A ParameterSet is a function from the slot names present to strings.    *)
(***************************************************************************)
EmptyParams == [k \in {} |-> ""]

Put(d, k, v) == [x \in DOMAIN d \cup {k} |-> IF x = k THEN v ELSE d[x]]

\* dict.get(k, default)
Get(d, k, default) == IF k \in DOMAIN d THEN d[k] ELSE default

PartNames == <<"water filter", "ice maker", "control board", "heating element",
               "drain pump", "door gasket">>

\* the first entry of a list that occurs in the text, or None
FirstIn(list, input_lower) ==
    LET hits == {n \in DOMAIN list : Contains(input_lower, list[n])}
    IN  IF hits = {} THEN None ELSE list[MinOf(hits)]

Problems == <<"not cooling", "no water", "leaking", "not draining",
              "making noise", "not working", "ice maker", "no ice",
              "water dispenser", "not running", "door", "light", "strange taste">>

\* lines 396-422, pn being the part-number match of line 394 (or None)
LookupParams(pn, input_lower) ==
    LET Both(number, name) == Put(Put(EmptyParams, "part_number", number), "part_name", name)
    IN  IF pn # None THEN Put(EmptyParams, "part_number", pn)
        ELSE IF Contains(input_lower, "water filter") THEN Both("W10295370A", "water filter")
        ELSE IF Contains(input_lower, "ice maker") THEN Both("W10190961", "ice maker")
        ELSE IF Contains(input_lower, "control board") THEN Both("WPW10503278", "control board")
        ELSE IF Contains(input_lower, "heating element") \/ Contains(input_lower, "heater")
             THEN Both("WPW10518394", "heating element")
        ELSE IF Contains(input_lower, "drain pump") THEN Both("W10348269", "drain pump")
        ELSE IF Contains(input_lower, "door gasket") \/ Contains(input_lower, "seal")
             THEN Both("WPW10438677", "door gasket")
        ELSE IF FirstIn(PartNames, input_lower) # None
             THEN Put(EmptyParams, "part_name", FirstIn(PartNames, input_lower))
        ELSE EmptyParams

ExtractLookup(user_input, input_lower) ==
    LookupParams(search_part_number(user_input), input_lower)

\* lines 429-440, pn and mn being the matches of lines 428 and 433 (or None)
CompatibilityParams(pn, mn, input_lower) ==
    LET p1 == IF pn # None THEN Put(EmptyParams, "part_number", pn) ELSE EmptyParams
        p2 == IF mn # None /\ mn # Get(p1, "part_number", "") THEN Put(p1, "model_number", mn) ELSE p1
    IN  IF /\ "model_number" \in DOMAIN p2
           /\ "part_number" \notin DOMAIN p2
           /\ Contains(input_lower, "water filter")
        THEN Put(Put(p2, "part_number", "W10295370A"), "part_name", "water filter")
        ELSE p2

ExtractCompatibility(user_input, input_lower) ==
    CompatibilityParams(search_part_number(user_input), search_model_number(user_input),
                        input_lower)

ExtractAppliance(input_lower) ==
    IF Contains(input_lower, "refrigerator") \/ Contains(input_lower, "fridge")
    THEN Put(EmptyParams, "appliance_type", "refrigerator")
    ELSE IF Contains(input_lower, "dishwasher") \/ Contains(input_lower, "dish washer")
    THEN Put(EmptyParams, "appliance_type", "dishwasher")
    ELSE EmptyParams

ExtractInstall(input_lower) ==
    LET p1 == ExtractAppliance(input_lower)
    IN  IF FirstIn(PartNames, input_lower) # None
        THEN Put(p1, "part_name", FirstIn(PartNames, input_lower)) ELSE p1

ExtractDiagnose(input_lower) ==
    LET p1 == ExtractAppliance(input_lower)
        p2 == IF FirstIn(Problems, input_lower) # None
              THEN Put(p1, "problem", FirstIn(Problems, input_lower)) ELSE p1
    IN  IF /\ Contains(input_lower, "water")
           /\ (Contains(input_lower, "taste") \/ Contains(input_lower, "strange")
                 \/ Contains(input_lower, "bad"))
        THEN Put(Put(p2, "problem", "water filter"), "part_name", "water filter")
        ELSE p2

\* lines 481-502, pn and q being the matches of lines 480 and 485 (or None)
CartParams(pn, q, input_lower) ==
    LET has(p) == Contains(input_lower, p)
        p1 == IF pn # None THEN Put(EmptyParams, "part_number", pn) ELSE EmptyParams
        p2 == Put(p1, "quantity", IF q # None THEN q ELSE "1")
        action == IF has("add") \/ has("put") THEN "add"
                  ELSE IF has("remove") \/ has("delete") THEN "remove"
                  ELSE IF has("view") \/ has("show") \/ has("what") THEN "view"
                  ELSE IF has("clear") \/ has("empty") THEN "clear"
                  ELSE "view"
    IN  Put(p2, "action", action)

ExtractCart(user_input, input_lower) ==
    CartParams(search_part_number(user_input), search_quantity(input_lower), input_lower)

\* lines 510-517, on and em being the matches of lines 509 and 514 (or None)
OrderParams(on, em) ==
    LET p1 == IF on # None THEN Put(EmptyParams, "order_number", on) ELSE EmptyParams
    IN  IF em # None THEN Put(p1, "email", em) ELSE p1

ExtractOrder(user_input, input_lower) ==
    OrderParams(search_order_number(input_lower), search_email(user_input))

\* the appliance type is detected for every intent, not only install and diagnose
extract_parameters_ApplianceForAll(intent, user_input) ==
    LET input_lower == lower(user_input)
    IN  ExtractAppliance(input_lower) @@
        CASE intent = "lookup" -> ExtractLookup(user_input, input_lower)
          [] intent = "compatibility" -> ExtractCompatibility(user_input, input_lower)
          [] intent = "install" -> ExtractInstall(input_lower)
          [] intent = "diagnose" -> ExtractDiagnose(input_lower)
          [] intent = "cart" -> ExtractCart(user_input, input_lower)
          [] intent = "order" -> ExtractOrder(user_input, input_lower)
          [] OTHER -> EmptyParams

extract_parameters(intent, user_input) ==
    LET input_lower == lower(user_input)
    IN  CASE intent = "lookup" -> ExtractLookup(user_input, input_lower)
          [] intent = "compatibility" -> ExtractCompatibility(user_input, input_lower)
          [] intent = "install" -> ExtractInstall(input_lower)
          [] intent = "diagnose" -> ExtractDiagnose(input_lower)
          [] intent = "cart" -> ExtractCart(user_input, input_lower)
          [] intent = "order" -> ExtractOrder(user_input, input_lower)
          [] OTHER -> EmptyParams

(***************************************************************************)
(* Inputs of the model                                                     *)
(***************************************************************************)
NumTexts == 11
NumResults == 2

Corpus ==
    <<"I need a water filter for my refrigerator",
      "How do I install it?",
      "Add to cart",
      "Track my dishwasher part order",
      "My microwave is broken",
      "Is W10295370A compatible with my Whirlpool WRS325FDAM04?",
      "I want to buy a dishwasher pump, mine is broken",
      "add 3 units of W10295370A to my cart",
      "Track my order, the dishwasher pump has a problem",
      "",
      "Is it in my cart?",
      "My microwave stopped working",
      "My dishwasher is leaking",
      "I need a part",
      "Where can I get it?",
      "Do you have parts for my WDT780SAEM1 oven",
      "How do I install a new water filter in my refrigerator?",
      "Will part 67003753 work with my GD5SHAAXNQ00 dishwasher?">>

Texts == {Corpus[i] : i \in 1..Min(NumTexts, Len(Corpus))}

HandlerResultList ==
    <<"{\"name\": \"Water Filter\", \"price\": 25}",
      "No information found",
      "{\"error\": \"Part not found\"}">>

HandlerResults == {HandlerResultList[i] : i \in 1..Min(NumResults, Len(HandlerResultList))}

HandlerErrors == {"connection refused", "timed out"}

\* exceptions that are not an Exception, which "except Exception" (line 353)
\* does not catch: the cancellation of the connection's task, which the await
\* of the handler raises (KeyboardInterrupt and SystemExit pass line 353 the
\* same way)
UncaughtExceptions == {"asyncio.CancelledError"}

\* what IntentClassificationTool._run can do: return a label or raise
LLMRaises == "<raises>"
LLMOutcomes == {"lookup", "compatibility", "install", "diagnose", "out_of_scope", LLMRaises}

\* the callers that share the one agent
Callers == {"A", "B"}

\* The recursion depth at which the frame of process_query runs is the
\* caller's.  A awaits process_query in a coroutine that the statements of
\* a script drive by send(), with no event loop.  B awaits it in a
\* coroutine that asyncio.run, called by the statements of a script, runs
\* in its event loop, as test_part_agent.py does at lines 135-139.
DrivenDepth == 4

AsyncioRunDepth == 11

CallerDepth == [c \in Callers |-> IF c = "A" THEN DrivenDepth ELSE AsyncioRunDepth]

\* n times the text t
RECURSIVE Repeat(_, _)
Repeat(t, n) ==
    IF n <= 0 THEN "" ELSE IF n = 1 THEN t
    ELSE Repeat(t, n \div 2) \o Repeat(t, n - n \div 2)

\* a part whose document nests arrays: an object and arrays inside each
\* other, levels in all
NestedPart(levels) ==
    "{\"name\": \"Water Filter\", \"fits\": "
        \o Repeat("[", levels - 1) \o Repeat("]", levels - 1) \o "}"

(***************************************************************************)
(* The analysis of a text that does not depend on the conversation context *)
(* is the same on every call; it is tabulated once for the texts of the    *)
(* model and looked up by the operators below.                             *)
(***************************************************************************)
\* lines 163-178 of process_query: the rule-based label with the diagnose override
ProblemIndicators == {"not working", "not cooling", "leaking", "strange", "noise", "broken",
                      "doesn't work", "isn't working", "problem", "issue", "doesn't"}

\* the label of extract_intent is kept whatever the text says
OverriddenIntent_KeepsLabel(user_input) == extract_intent(user_input)

\* the classifier rejects every text without an appliance keyword, although
\* the scope check accepted it
OverriddenIntent_StricterScope(user_input) ==
    IF ContainsAny(lower(user_input), ProblemIndicators) THEN "diagnose"
    ELSE IF ~HasInScopeAppliance(lower(user_input)) THEN "out_of_scope"
    ELSE extract_intent(user_input)

\* lines 167-178
OverriddenIntent(user_input) ==
    IF ContainsAny(lower(user_input), ProblemIndicators) THEN "diagnose"
    ELSE extract_intent(user_input)

\* the analysis of text t, given its stripped lower-case form and its label;
\* params are the parameters extracted for that label
Analysed(t, query_lower, intent) ==
    [query_lower |-> query_lower,
     tokens |-> split(query_lower),
     in_scope |-> is_in_scope(t),
     intent |-> intent,
     params |-> extract_parameters(intent, t)]

AnalyseText(t) == Analysed(t, strip(lower(t)), OverriddenIntent(t))

RECURSIVE Tabulate(_)
Tabulate(S) ==
    IF S = {} THEN << >>
    ELSE LET t == CHOOSE x \in S : TRUE
         IN  (t :> AnalyseText(t)) @@ Tabulate(S \ {t})

TextMemo == Tabulate(Texts)

\* the entry of text t in a table, or its analysis when the table has none
Tabulated(memo, t) == IF t \in DOMAIN memo THEN memo[t] ELSE AnalyseText(t)

Analysis(t) == Tabulated(TextMemo, t)

\* _extract_parameters(intent, user_input), looked up when tabulated
TabulatedParameters(memo, intent, user_input) ==
    IF user_input \in DOMAIN memo /\ memo[user_input].intent = intent
    THEN memo[user_input].params
    ELSE extract_parameters(intent, user_input)

Parameters(intent, user_input) == TabulatedParameters(TextMemo, intent, user_input)

(***************************************************************************)
(* part_agent.py: conversation context and context resolution              *)
(***************************************************************************)
ContextFields == {"last_intent", "last_part_number", "last_part_name",
                  "last_model_number", "last_appliance_type"}

\* PartSelectAgent.__init__: every field None
InitialContext == [f \in ContextFields |-> None]

\* Python truthiness of an Optional[str]
Truthy(v) == v # None /\ v # ""

\* a or default
OrElse(v, default) == IF Truthy(v) THEN v ELSE default

Pronouns == {"it", "this", "that", "them", "these", "those"}

FollowUpPatterns == {"how do i", "how to", "install", "compatible", "will it work",
                     "is it compatible", "where does it go", "how much", "what about",
                     "add to cart", "remove from cart", "check order"}

\* lines 585-610 on the stripped lower-case query and its tokens
ContextDependent(query_lower, tokens, ctx) ==
    LET has(p) == Contains(query_lower, p)
    IN  IF Len(tokens) <= 5
        THEN \/ Range(tokens) \cap Pronouns # {}
             \/ \E pattern \in FollowUpPatterns : startswith(query_lower, pattern)
        ELSE IF has("cart") \/ has("add") \/ has("basket")
        THEN Truthy(ctx["last_part_number"])
        ELSE has("order") \/ has("status") \/ has("track")

\* lines 563 and 585: the query is lowered, stripped and split
StrippedAndSplit(a, ctx) == ContextDependent(a.query_lower, a.tokens, ctx)

\* only pronouns mark a follow-up; the opening phrases are not looked at
is_context_dependent_query_PronounsOnly(query, ctx) ==
    LET query_lower == Analysis(query).query_lower
        tokens == Analysis(query).tokens
        has(p) == Contains(query_lower, p)
    IN  IF Len(tokens) <= 5
        THEN Range(tokens) \cap Pronouns # {}
        ELSE IF has("cart") \/ has("add") \/ has("basket")
        THEN Truthy(ctx["last_part_number"])
        ELSE has("order") \/ has("status") \/ has("track")

is_context_dependent_query(query, ctx) == StrippedAndSplit(Analysis(query), ctx)

NoEnhancement == <<None, None>>

InstallRewrite(part_name, appliance) ==
    "How do I install a " \o part_name \o " in my " \o appliance \o "?"

\* the second if/elif chain of _enhance_query_with_context
EnhanceSecondChain(query_lower, ctx) ==
    LET has(p) == Contains(query_lower, p)
    IN  IF ctx["last_intent"] \in {"lookup", "compatibility"}
        THEN IF has("install") \/ has("how")
             THEN <<"install", InstallRewrite(OrElse(ctx["last_part_name"], "part"),
                                              OrElse(ctx["last_appliance_type"], "refrigerator"))>>
             ELSE NoEnhancement
        ELSE IF has("cart") \/ has("add") \/ has("basket")
        THEN IF Truthy(ctx["last_part_number"])
             THEN IF has("add")
                  THEN <<"cart", "Add part " \o ctx["last_part_number"] \o " to my cart">>
                  ELSE <<"cart", "View my cart">>
             ELSE NoEnhancement
        ELSE IF has("order") \/ has("status") \/ has("track")
        THEN <<"order", "Check my order status">>
        ELSE NoEnhancement

\* the rules are tried although no turn has been stored
EnhanceFirstChain_WithoutStoredTurn(query_lower, ctx) ==
    LET has(p) == Contains(query_lower, p)
    IN  IF ((has("how") /\ has("install")) \/ has("installation"))
           /\ Truthy(ctx["last_part_name"])
        THEN <<"install", InstallRewrite(ctx["last_part_name"],
                                         OrElse(ctx["last_appliance_type"], "refrigerator"))>>
        ELSE EnhanceSecondChain(query_lower, ctx)

\* the first if/elif chain of _enhance_query_with_context
EnhanceFirstChain(query_lower, ctx) ==
    LET has(p) == Contains(query_lower, p)
        second == EnhanceSecondChain(query_lower, ctx)
    IN  IF ~Truthy(ctx["last_intent"]) THEN NoEnhancement
        ELSE IF (has("how") /\ has("install")) \/ has("installation")
        THEN IF Truthy(ctx["last_part_name"])
             THEN <<"install", InstallRewrite(ctx["last_part_name"],
                                              OrElse(ctx["last_appliance_type"], "refrigerator"))>>
             ELSE second
        ELSE IF has("compatible") \/ has("work with")
        THEN IF Truthy(ctx["last_part_number"]) /\ Truthy(ctx["last_model_number"])
             THEN <<"compatibility", "Is part " \o ctx["last_part_number"]
                                       \o " compatible with " \o ctx["last_model_number"] \o "?">>
             ELSE second
        ELSE IF has("where") \/ has("find") \/ has("get")
        THEN IF Truthy(ctx["last_part_name"])
             THEN <<"lookup", "I need a " \o ctx["last_part_name"] \o " for my "
                                \o OrElse(ctx["last_appliance_type"], "refrigerator")>>
             ELSE second
        ELSE second

\* every connection is answered from an empty context of its own
enhance_query_with_context_OwnContext(query, ctx) ==
    EnhanceFirstChain(Analysis(query).query_lower, InitialContext)

enhance_query_with_context(query, ctx) ==
    EnhanceFirstChain(Analysis(query).query_lower, ctx)

\* lines 685-698, params being the parameters extracted at line 688
StoreParameters(ctx, intent, params) ==
    LET Slot(slot, old) == IF slot \in DOMAIN params THEN params[slot] ELSE old
    IN  [last_intent |-> intent,
         last_part_number |-> Slot("part_number", ctx["last_part_number"]),
         last_part_name |-> Slot("part_name", ctx["last_part_name"]),
         last_model_number |-> Slot("model_number", ctx["last_model_number"]),
         last_appliance_type |-> Slot("appliance_type", ctx["last_appliance_type"])]

\* every field is assigned from the parameters, present or not
update_conversation_context_Clearing(ctx, intent, query) ==
    LET params == Parameters(intent, query)
    IN  [last_intent |-> intent,
         last_part_number |-> Get(params, "part_number", None),
         last_part_name |-> Get(params, "part_name", None),
         last_model_number |-> Get(params, "model_number", None),
         last_appliance_type |-> Get(params, "appliance_type", None)]

\* PartSelectAgent._update_conversation_context
update_conversation_context(ctx, intent, query) ==
    StoreParameters(ctx, intent, Parameters(intent, query))

(***************************************************************************)
(* part_agent.py: _generate_follow_up.  json.loads parses the result of    *)
(* the handler as the decoder of the json module does: any JSON value,     *)
(* with NaN, Infinity and -Infinity, between optional JSON whitespace.  A  *)
(* parsed value is a record of its kind, its text (the source text of a    *)
(* number) and its items (the code points of a string, the values of an    *)
(* array, the members of an object in source order).  A decoded string is  *)
(* kept as the sequence of its code points, because an escape \uXXXX       *)
(* writes any code point, also U+0000, one above U+00FF and a surrogate.   *)
(***************************************************************************)
\* the grave accent, which a string holds only before an apostrophe
GraveAccent == Ch("`'", 1)

\* the characters U+0001 to U+00FF in order
CharTable == "\t\n\f\r !\"#$%&'()*+,-./0123456789:;<=>?@ABCDEFGHIJKLMNOPQRSTUVWXYZ[\\]^_"
                \o GraveAccent
                \o "abcdefghijklmnopqrstuvwxyz{|}~ ¡¢£¤¥¦§¨©ª«¬­®¯°±²³´µ¶·¸¹º»¼½¾¿ÀÁÂÃÄÅÆÇÈÉÊËÌÍÎÏÐÑÒÓÔÕÖ×ØÙÚÛÜÝÞßàáâãäåæçèéêëìíîïðñòóôõö÷øùúûüýþÿ"

chr(code) == Ch(CharTable, code)

\* the code point of each character of a string
Ord == [c \in {chr(code) : code \in 1..255} |-> CHOOSE code \in 1..255 : chr(code) = c]

ord(c) == Ord[c]

\* the code points of a string
Codes(t) == [i \in 1..Len(t) |-> ord(Ch(t, i))]

\* the characters of the code points lo to hi
RECURSIVE CharsOf(_, _, _)
CharsOf(codes, lo, hi) ==
    IF lo > hi THEN ""
    ELSE IF lo = hi THEN chr(codes[lo])
    ELSE CharsOf(codes, lo, (lo + hi) \div 2) \o CharsOf(codes, (lo + hi) \div 2 + 1, hi)

\* the str of a sequence of code points: a string, or the code points themselves
\* when one of them is U+0000 or above U+00FF, which no string holds
Text(codes) ==
    IF \A i \in DOMAIN codes : codes[i] \in 1..255 THEN CharsOf(codes, 1, Len(codes))
    ELSE codes

\* the sequences lo to hi of parts, one after the other
RECURSIVE Concat(_, _, _)
Concat(parts, lo, hi) ==
    IF lo > hi THEN << >>
    ELSE IF lo = hi THEN parts[lo]
    ELSE Concat(parts, lo, (lo + hi) \div 2) \o Concat(parts, (lo + hi) \div 2 + 1, hi)

Max(a, b) == IF a >= b THEN a ELSE b

\* RunLen without recursion, for the digits of a number, which may be thousands
SpanLen(s, i, cls) ==
    IF \A j \in i..Len(s) : Ch(s, j) \in cls THEN Max(Len(s) + 1 - i, 0)
    ELSE (CHOOSE j \in i..Len(s) :
              Ch(s, j) \notin cls /\ \A k \in i..(j - 1) : Ch(s, k) \in cls) - i

\* the whitespace of the JSON decoder
JsonSpace == {" ", "\t", "\n", "\r"}

\* characters below U+0020, which a JSON string may not hold
ControlChars == {chr(code) : code \in 1..31}

HexSeq == "0123456789abcdef"
HexUpperSeq == "0123456789ABCDEF"

\* the value of a hexadecimal digit, -1 for any other character
HexValue(c) ==
    IF \E i \in 1..16 : Ch(HexSeq, i) = c THEN (CHOOSE i \in 1..16 : Ch(HexSeq, i) = c) - 1
    ELSE IF \E i \in 1..16 : Ch(HexUpperSeq, i) = c
    THEN (CHOOSE i \in 1..16 : Ch(HexUpperSeq, i) = c) - 1
    ELSE -1

\* s has p at position i
At(s, i, p) == i + Len(p) - 1 <= Len(s) /\ SubSeq(s, i, i + Len(p) - 1) = p

JsonValue(kind, text, items) == [kind |-> kind, text |-> text, items |-> items]

ParseFail == [ok |-> FALSE, val |-> JsonValue("null", "", << >>), end |-> 0]

Parsed(val, end) == [ok |-> TRUE, val |-> val, end |-> end]

\* the code unit of \uXXXX at position i (the backslash), -1 if it is not four hex digits
EscapedUnit(s, i) ==
    IF At(s, i, "\\u") /\ i + 5 <= Len(s) /\ \A k \in 2..5 : HexValue(Ch(s, i + k)) >= 0
    THEN ((HexValue(Ch(s, i + 2)) * 16 + HexValue(Ch(s, i + 3))) * 16
             + HexValue(Ch(s, i + 4))) * 16 + HexValue(Ch(s, i + 5))
    ELSE -1

\* the escapes of one character
BACKSLASH ==
    [c \in {"\"", "\\", "/", "b", "f", "n", "r", "t"} |->
        CASE c = "b" -> 8 [] c = "f" -> 12 [] c = "n" -> 10
          [] c = "r" -> 13 [] c = "t" -> 9 [] OTHER -> ord(c)]

\* the code point a high and a low surrogate write together
JoinSurrogates(high, low) == 65536 + (high - 55296) * 1024 + (low - 56320)

\* STRINGCHUNK: the characters a string holds as they are
ChunkChars == {chr(code) : code \in 32..255} \ {"\"", "\\"}

RECURSIVE scanstring(_, _, _)

\* the string goes on at position i, after the run of characters that stand
\* for themselves
AfterChunk(s, i, acc) ==
    IF i > Len(s) THEN ParseFail
    ELSE IF Ch(s, i) = "\"" THEN Parsed(JsonValue("string", "", acc), i + 1)
    ELSE IF Ch(s, i) \in ControlChars THEN ParseFail
    ELSE IF i + 1 > Len(s) THEN ParseFail
    ELSE IF Ch(s, i + 1) \in DOMAIN BACKSLASH
    THEN scanstring(s, i + 2, Append(acc, BACKSLASH[Ch(s, i + 1)]))
    ELSE IF Ch(s, i + 1) # "u" \/ EscapedUnit(s, i) < 0 THEN ParseFail
    ELSE IF EscapedUnit(s, i) \in 55296..56319 /\ EscapedUnit(s, i + 6) \in 56320..57343
    THEN scanstring(s, i + 12,
                    Append(acc, JoinSurrogates(EscapedUnit(s, i), EscapedUnit(s, i + 6))))
    ELSE scanstring(s, i + 6, Append(acc, EscapedUnit(s, i)))

\* scanstring: the string whose opening quote is before position i, acc being
\* the code points decoded so far.  A surrogate that is not half of a pair is kept.
scanstring(s, i, acc) ==
    AfterChunk(s, i + SpanLen(s, i, ChunkChars),
               acc \o Codes(SubSeq(s, i, i + SpanLen(s, i, ChunkChars) - 1)))

\* sys.get_int_max_str_digits(): int() of more digits raises ValueError
MaxStrDigits == 4300

\* a number at position i: -?(0|[1-9][0-9]*)(\.[0-9]+)?([eE][-+]?[0-9]+)?
ParseNumber(s, i) ==
    LET j == IF At(s, i, "-") THEN i + 1 ELSE i
        intLen == IF At(s, j, "0") THEN 1 ELSE SpanLen(s, j, DigitChars)
        k == j + intLen
        fracLen == IF At(s, k, ".") THEN SpanLen(s, k + 1, DigitChars) ELSE 0
        m == IF fracLen > 0 THEN k + 1 + fracLen ELSE k
        signLen == IF At(s, m + 1, "+") \/ At(s, m + 1, "-") THEN 1 ELSE 0
        expLen == IF At(s, m, "e") \/ At(s, m, "E")
                  THEN SpanLen(s, m + 1 + signLen, DigitChars) ELSE 0
        n == IF expLen > 0 THEN m + 1 + signLen + expLen ELSE m
    IN  IF intLen = 0 THEN ParseFail
        ELSE IF fracLen > 0 \/ expLen > 0
        THEN Parsed(JsonValue("float", SubSeq(s, i, n - 1), << >>), n)
        ELSE IF intLen > MaxStrDigits THEN ParseFail
        ELSE Parsed(JsonValue("int", SubSeq(s, i, n - 1), << >>), n)

SkipSpace(s, i) == i + SpanLen(s, i, JsonSpace)

\* sys.getrecursionlimit()
RecursionLimit == 1000

\* the calls between the frame that runs json.loads(result) and the scanner:
\* loads, JSONDecoder.decode and raw_decode
ScannerFrames == 3

\* the scanner enters an object or an array, the nesting-th of those open,
\* while json.loads(result) runs in a frame at recursion depth depth: at the
\* recursion limit the call is one too many (RecursionError)
TooDeep(nesting, depth) == depth + ScannerFrames + nesting >= RecursionLimit

\* scan_once for a value that is no object and no array
ParseScalar(s, i) ==
    IF At(s, i, "\"") THEN scanstring(s, i + 1, << >>)
    ELSE IF At(s, i, "null") THEN Parsed(JsonValue("null", "", << >>), i + 4)
    ELSE IF At(s, i, "true") THEN Parsed(JsonValue("true", "", << >>), i + 4)
    ELSE IF At(s, i, "false") THEN Parsed(JsonValue("false", "", << >>), i + 5)
    ELSE IF At(s, i, "NaN") THEN Parsed(JsonValue("NaN", "", << >>), i + 3)
    ELSE IF At(s, i, "Infinity") THEN Parsed(JsonValue("Infinity", "", << >>), i + 8)
    ELSE IF At(s, i, "-Infinity") THEN Parsed(JsonValue("-Infinity", "", << >>), i + 9)
    ELSE ParseNumber(s, i)

\* The scanner calls itself for every object and array inside another, so
\* the objects and arrays it has entered and not yet left are its calls in
\* progress.  Scanning keeps them in open, the innermost last, each with the
\* items it holds so far and, for an object, the key whose value is
\* awaited; i is the position in the text and mode says what comes there: a
\* value, a key, or what follows the value val that ended before i.
Scanning(mode, i, val, open) == [mode |-> mode, i |-> i, val |-> val, open |-> open]

ScanFail == Scanning("fail", 0, JsonValue("null", "", << >>), << >>)

\* the scalar r was read where a value was awaited
Scanned(r, open) == IF r.ok THEN Scanning("close", r.end, r.val, open) ELSE ScanFail

\* _parse_object_unicode and _parse_array_unicode are entered: j is the
\* position after the opening bracket and the whitespace behind it
Opened(s, j, kind, open, depth) ==
    IF TooDeep(Len(open) + 1, depth) THEN ScanFail
    ELSE IF At(s, j, IF kind = "object" THEN "}" ELSE "]")
    THEN Scanning("close", j + 1, JsonValue(kind, "", << >>), open)
    ELSE Scanning(IF kind = "object" THEN "key" ELSE "value", j, JsonValue("null", "", << >>),
                  Append(open, [kind |-> kind, items |-> << >>, key |-> << >>]))

\* scan_once: a value must begin at position i
ParseValue(s, i, open, depth) ==
    IF At(s, i, "{") THEN Opened(s, SkipSpace(s, i + 1), "object", open, depth)
    ELSE IF At(s, i, "[") THEN Opened(s, SkipSpace(s, i + 1), "array", open, depth)
    ELSE Scanned(ParseScalar(s, i), open)

\* the innermost object goes on after its key k: a colon, then the value
AfterKey(s, k, j, open) ==
    IF ~k.ok \/ ~At(s, j, ":") THEN ScanFail
    ELSE Scanning("value", SkipSpace(s, j + 1), JsonValue("null", "", << >>),
                  [open EXCEPT ![Len(open)].key = k.val.items])

\* _parse_object_unicode: a key must begin at position i
ParseKey(s, k, open) == AfterKey(s, k, IF k.ok THEN SkipSpace(s, k.end) ELSE 0, open)

ParseMembers(s, i, open) ==
    IF ~At(s, i, "\"") THEN ScanFail ELSE ParseKey(s, scanstring(s, i + 1, << >>), open)

\* the innermost object or array, top, holds items after the value that
\* ended before position j and the whitespace behind it: it ends there, or
\* goes on after a comma
AfterItem(s, j, top, items, open) ==
    IF At(s, j, IF top.kind = "object" THEN "}" ELSE "]")
    THEN Scanning("close", j + 1, JsonValue(top.kind, "", items),
                  SubSeq(open, 1, Len(open) - 1))
    ELSE IF At(s, j, ",")
    THEN Scanning(IF top.kind = "object" THEN "key" ELSE "value", SkipSpace(s, j + 1),
                  JsonValue("null", "", << >>), [open EXCEPT ![Len(open)].items = items])
    ELSE ScanFail

\* the value val ended: it is the value of the awaited key of the innermost
\* object, or the next element of the innermost array
ParseElements(s, i, val, top, open) ==
    AfterItem(s, SkipSpace(s, i), top,
              Append(top.items, IF top.kind = "object"
                                THEN [key |-> top.key, value |-> val] ELSE val),
              open)

\* one step of the scanner
ScanStep(st, s, depth) ==
    IF st.mode = "value" THEN ParseValue(s, st.i, st.open, depth)
    ELSE IF st.mode = "key" THEN ParseMembers(s, st.i, st.open)
    ELSE IF st.mode = "close" /\ st.open = << >> THEN [st EXCEPT !.mode = "done"]
    ELSE IF st.mode = "close" THEN ParseElements(s, st.i, st.val, st.open[Len(st.open)], st.open)
    ELSE st

\* at most steps steps of the scanner, which stops when the outermost value
\* has ended or the text is malformed
RECURSIVE Scan(_, _, _, _)
Scan(st, s, depth, steps) ==
    IF st.mode \in {"done", "fail"} \/ steps <= 0 THEN st
    ELSE IF steps = 1 THEN ScanStep(st, s, depth)
    ELSE Scan(Scan(st, s, depth, steps \div 2), s, depth, steps - steps \div 2)

\* the whole text is one value between whitespace
WholeText(s, st) ==
    IF st.mode = "done" /\ SkipSpace(s, st.i) = Len(s) + 1 THEN Parsed(st.val, st.i)
    ELSE ParseFail

\* json.loads(result) in a frame at recursion depth depth; every step of
\* the scanner takes at least one character
json_loads(result, depth) ==
    WholeText(result,
              Scan(Scanning("value", SkipSpace(result, 1), JsonValue("null", "", << >>), << >>),
                   result, depth, Len(result) + 2))

(***************************************************************************)
(* What Python makes of the parsed value: dict lookup, truth value, str    *)
(* and repr.                                                               *)
(***************************************************************************)
\* key in d, for the members of an object
HasKey(members, key) == \E i \in DOMAIN members : members[i].key = key

\* d[key]: the last member of that key
Member(members, key) ==
    members[MaxOf({i \in DOMAIN members : members[i].key = key})].value

\* the members as the dict keeps them: each key where it first occurs, with its last value
DictItems(members) ==
    LET first == {i \in DOMAIN members : \A j \in 1..(i - 1) : members[j].key # members[i].key}
        order == [n \in 1..Cardinality(first) |->
                     CHOOSE i \in first : Cardinality({j \in first : j <= i}) = n]
    IN  [n \in 1..Cardinality(first) |->
            [key |-> members[order[n]].key, value |-> Member(members, members[order[n]].key)]]

(***************************************************************************)
(* float(text) and repr of the float, as the interpreter computes them:    *)
(* the text is rounded to the nearest double, ties to even, and repr       *)
(* prints the shortest digits that read back to that double.  Both need    *)
(* exact arithmetic on numbers of hundreds of digits: a natural number is  *)
(* the sequence of its digits to the base Radix, lowest first, the         *)
(* highest not 0 and zero the empty sequence.  Carries are settled column  *)
(* by column, without recursion over the digits.                           *)
(***************************************************************************)
Radix == 10 ^ 3

Limb(a, i) == IF i <= Len(a) THEN a[i] ELSE 0

\* the sum of the values of f, none of which is negative
SumOf(f) == BagCardinality([i \in {j \in DOMAIN f : f[j] > 0} |-> f[i]])

\* without the zeros above the highest digit
Trim(a) ==
    IF \A i \in DOMAIN a : a[i] = 0 THEN << >>
    ELSE SubSeq(a, 1, CHOOSE i \in DOMAIN a :
                          a[i] # 0 /\ \A k \in (i + 1)..Len(a) : a[k] = 0)

\* each column keeps what is below Radix and gives the rest to the next column
CarryOnce(c) ==
    [k \in 1..(Len(c) + 1) |->
        (Limb(c, k) % Radix) + (IF k > 1 THEN c[k - 1] \div Radix ELSE 0)]

\* the carry into column k of columns that are below 2 * Radix - 1: a column
\* below k overflows and the columns between them are full
CarryIn(c, k) ==
    IF \E j \in 1..(k - 1) : c[j] >= Radix /\ \A i \in (j + 1)..(k - 1) : c[i] = Radix - 1
    THEN 1 ELSE 0

Settle(c) == Trim([k \in 1..(Len(c) + 1) |-> (Limb(c, k) + CarryIn(c, k)) % Radix])

\* the number whose columns are c, each at least 0 and below 2^31
Carried(c) == Settle(CarryOnce(CarryOnce(CarryOnce(c))))

\* a * m + carry, for a multiplier and a carry below 10^6
multadd(a, m, carry) ==
    IF a = << >> THEN Carried(<<carry>>)
    ELSE Carried([k \in 1..Len(a) |-> a[k] * m + (IF k = 1 THEN carry ELSE 0)])

\* a + b
sum(a, b) ==
    IF a = << >> THEN b
    ELSE IF b = << >> THEN a
    ELSE Carried([k \in 1..Max(Len(a), Len(b)) |-> Limb(a, k) + Limb(b, k)])

\* the borrow from column k of a - b: a column below k is short and the
\* columns between them are equal
BorrowIn(a, b, k) ==
    IF \E j \in 1..(k - 1) :
           a[j] < Limb(b, j) /\ \A i \in (j + 1)..(k - 1) : a[i] = Limb(b, i)
    THEN 1 ELSE 0

\* a - b, for a >= b
diff(a, b) ==
    IF b = << >> THEN a
    ELSE Trim([k \in 1..Len(a) |-> (a[k] - Limb(b, k) - BorrowIn(a, b, k) + Radix) % Radix])

\* a * b
mult(a, b) ==
    IF a = << >> \/ b = << >> THEN << >>
    ELSE Carried([k \in 1..(Len(a) + Len(b) - 1) |->
                     SumOf([i \in Max(1, k - Len(b) + 1)..Min(k, Len(a)) |->
                               a[i] * b[k - i + 1]])])

\* -1, 0 or 1 as a is less than, equal to or greater than b
cmp(a, b) ==
    IF Len(a) # Len(b) THEN (IF Len(a) < Len(b) THEN -1 ELSE 1)
    ELSE IF a = b THEN 0
    ELSE IF \E i \in DOMAIN a :
                a[i] < b[i] /\ \A k \in (i + 1)..Len(a) : a[k] = b[k]
    THEN -1 ELSE 1

\* h * h * m
SquareTimes(h, m) == IF h = << >> THEN h ELSE multadd(mult(h, h), m, 0)

\* 2^n
RECURSIVE pow2(_)
pow2(n) == IF n < 31 THEN Carried(<<2 ^ n>>) ELSE SquareTimes(pow2(n \div 2), 2 ^ (n % 2))

\* a * 2^n
lshift(a, n) == mult(a, pow2(n))

\* a * Radix^n
shiftlimbs(a, n) == IF a = << >> THEN a ELSE [i \in 1..n |-> 0] \o a

\* a * 10^n
pow10mult(a, n) == shiftlimbs(multadd(a, 10 ^ (n % 3), 0), n \div 3)

\* r \div b for b of two digits or more and r below b * Radix: the quotient of
\* the leading digits of r by those of b, plus one, is that digit or at most
\* two below it
DigitBelow(r, b) ==
    (Limb(r, Len(b) + 1) * Radix * Radix + Limb(r, Len(b)) * Radix + Limb(r, Len(b) - 1))
        \div (b[Len(b)] * Radix + b[Len(b) - 1] + 1)

DigitAbove(r, b, low) == low + Cardinality({t \in 1..2 : cmp(multadd(b, low + t, 0), r) <= 0})

QuotientDigit(r, b) == DigitAbove(r, b, DigitBelow(r, b))

RECURSIVE DivLoop(_, _, _, _)

\* the digit d of the quotient is put below the digits q
DivStep(q, r, bk, k, d) ==
    IF d = 0 THEN DivLoop(IF q = << >> THEN q ELSE <<0>> \o q, r, Tail(bk), k - 1)
    ELSE DivLoop(<<d>> \o q, diff(r, multadd(bk, d, 0)), Tail(bk), k - 1)

\* long division: q holds the digits of the quotient above digit k, r is what
\* is left to divide and bk is the divisor times Radix^k
DivLoop(q, r, bk, k) ==
    IF k < 0 THEN [q |-> q, r |-> r] ELSE DivStep(q, r, bk, k, QuotientDigit(r, bk))

\* quotient and remainder of a by b, the quotient being below 2^53 and so of
\* six digits at most; both are taken times Radix, which gives the divisor two
\* digits and leaves the quotient as it is
DivScaled(h) == [q |-> h.q, r |-> IF h.r = << >> THEN h.r ELSE Tail(h.r)]

DivMod(a, b) ==
    DivScaled(DivLoop(<< >>, shiftlimbs(a, 1), shiftlimbs(b, 6), 5))

\* the digit b \div S, which is at most 9
TenthDigit(b, S) == Cardinality({d \in 1..9 : cmp(multadd(S, d, 0), b) <= 0})

\* the digits of a sequence of decimal digits without its leading zeros
StripLeadingZeros(d) == SubSeq(d, 1 + SpanLen(d, 1, {"0"}), Len(d))

StripTrailingZeros(d) ==
    IF \A i \in 1..Len(d) : Ch(d, i) = "0" THEN ""
    ELSE SubSeq(d, 1, CHOOSE i \in 1..Len(d) :
                          Ch(d, i) # "0" /\ \A k \in (i + 1)..Len(d) : Ch(d, k) = "0")

Zeros(n) == CharsOf([i \in 1..n |-> ord("0")], 1, n)

\* the number a sequence of at most nine decimal digits writes
RECURSIVE DigitsValue(_)
DigitsValue(d) ==
    IF d = "" THEN 0
    ELSE 10 * DigitsValue(SubSeq(d, 1, Len(d) - 1))
            + (CHOOSE v \in 0..9 : Ch(DigitSeq, v + 1) = Ch(d, Len(d)))

RECURSIVE NatText(_)
NatText(n) == IF n < 10 THEN Ch(DigitSeq, n + 1) ELSE NatText(n \div 10) \o Ch(DigitSeq, (n % 10) + 1)

\* the number a sequence of decimal digits without leading zeros writes
BigOfDigits(d) ==
    [i \in 1..((Len(d) + 2) \div 3) |->
        DigitsValue(SubSeq(d, Max(Len(d) - 3 * i + 1, 1), Len(d) - 3 * (i - 1)))]

\* the parts of the source text of a float: sign, significant digits without
\* leading and trailing zeros, and the power of ten of its first digit.
\* An exponent of more than nine digits is far outside the range of a float.
FloatParts(text) ==
    LET negative == At(text, 1, "-")
        j == IF negative THEN 2 ELSE 1
        intLen == SpanLen(text, j, DigitChars)
        fracLen == IF At(text, j + intLen, ".") THEN SpanLen(text, j + intLen + 1, DigitChars) ELSE 0
        m == IF fracLen > 0 THEN j + intLen + 1 + fracLen ELSE j + intLen
        hasExp == m <= Len(text)
        expNegative == At(text, m + 1, "-")
        expDigits == IF hasExp
                     THEN StripLeadingZeros(SubSeq(text, IF At(text, m + 1, "+") \/ expNegative
                                                         THEN m + 2 ELSE m + 1, Len(text)))
                     ELSE ""
        exponent == IF Len(expDigits) > 9 THEN 999999999 ELSE DigitsValue(expDigits)
        all == SubSeq(text, j, j + intLen - 1) \o SubSeq(text, j + intLen + 1, j + intLen + fracLen)
        stripped == StripLeadingZeros(all)
    IN  [negative |-> negative,
         digits |-> StripTrailingZeros(stripped),
         \* the value is 0.digits * 10^point
         point |-> intLen - (Len(all) - Len(stripped))
                      + (IF expNegative THEN -exponent ELSE exponent)]

\* a double: zero, infinite, or m * 2^e with m below 2^53, and at least 2^52
\* unless e is -1074
Double(class, m, e) == [class |-> class, m |-> m, e |-> e]

TwoTo52 == lshift(<<1>>, 52)
TwoTo53 == lshift(<<1>>, 53)

\* the least and the greatest power of two of the lowest bit of a double
MinExponent == -1022 - 52
MaxExponent == 1023 - 52

\* m * 2^e as a double: 2^53 is 2^52 with the next exponent
InRange(m, e) ==
    IF m = << >> THEN Double("zero", << >>, 0)
    ELSE IF m = TwoTo53 THEN (IF e + 1 > MaxExponent THEN Double("inf", << >>, 0)
                              ELSE Double("finite", TwoTo52, e + 1))
    ELSE IF e > MaxExponent THEN Double("inf", << >>, 0)
    ELSE Double("finite", m, e)

\* the quotient q rounded to nearest, ties to even: half compares twice the
\* remainder with the divisor
RoundHalfEven(q, half) ==
    IF half > 0 \/ (half = 0 /\ q # << >> /\ q[1] % 2 = 1) THEN multadd(q, 1, 1) ELSE q

\* h is the quotient and the remainder by b
Rounded(h, b) == RoundHalfEven(h.q, cmp(multadd(h.r, 2, 0), b))

\* the double of a / (b * 2^e), where a / b is not below 2^52 unless e is
\* MinExponent
RECURSIVE Nearest(_, _, _)
Nearest(a, b, e) ==
    IF cmp(a, mult(b, TwoTo53)) >= 0 THEN Nearest(a, multadd(b, 2, 0), e + 1)
    ELSE InRange(Rounded(DivMod(a, b), b), e)

\* the double nearest to n / q, e being at most the power of two of its lowest bit
RatioToDouble(n, q, e) ==
    Nearest(lshift(n, Max(-e, 0)), lshift(q, Max(e, 0)), e)

\* strtod: the double nearest to 0.digits * 10^point.  The value is at least
\* 10^(point-1), whose binary logarithm is more than (point-1) * 3.321928 - 1.
strtod(digits, point) ==
    IF digits = "" \/ point <= -324 THEN Double("zero", << >>, 0)
    ELSE IF point >= 310 THEN Double("inf", << >>, 0)
    ELSE RatioToDouble(pow10mult(BigOfDigits(digits), Max(point - Len(digits), 0)),
                       pow10mult(<<1>>, Max(Len(digits) - point, 0)),
                       Max(((point - 1) * 3321928) \div 1000000 - 53, MinExponent))

\* roundoff: one more in the last place of the digits acc, whose first is before
\* the power of ten decpt
roundoff(acc, decpt) ==
    IF \A i \in DOMAIN acc : acc[i] = 9 THEN [digits |-> <<1>>, decpt |-> decpt + 1]
    ELSE LET n == CHOOSE i \in DOMAIN acc :
                      acc[i] # 9 /\ \A k \in (i + 1)..Len(acc) : acc[k] = 9
         IN  [digits |-> Append(SubSeq(acc, 1, n - 1), acc[n] + 1), decpt |-> decpt]

\* the digits end with dig, 10 standing for a 9 that is rounded up
LastDigit(acc, dig, decpt) ==
    IF dig = 10 THEN roundoff(acc, decpt)
    ELSE [digits |-> Append(acc, dig), decpt |-> decpt]

\* one digit of dtoa in mode 0: dig and rem are the quotient and the remainder
\* of b by S, j compares rem with mlo and j1 compares rem + mhi with S.  The
\* digit the digits end with, 10 standing for a 9 that is rounded up, or -1
\* when they go on after dig
EndDigit(dig, rem, j, j1, S, even) ==
    IF j1 = 0 /\ even
    THEN (IF dig = 9 THEN 10 ELSE IF j > 0 THEN dig + 1 ELSE dig)
    ELSE IF j < 0 \/ (j = 0 /\ even)
    THEN (IF rem # << >> /\ j1 > 0
             /\ (cmp(multadd(rem, 2, 0), S) > 0
                 \/ (cmp(multadd(rem, 2, 0), S) = 0 /\ dig % 2 = 1))
          THEN dig + 1 ELSE dig)
    ELSE IF j1 > 0 THEN dig + 1
    ELSE -1

\* quorem and the tests on its remainder: the digit of b / S, what is left of
\* b, and the digit the digits end with
DigitOf(dig, rem, S, mhi, mlo, even, acc) ==
    [dig |-> dig, rem |-> rem, mhi |-> mhi, mlo |-> mlo, acc |-> acc,
     last |-> EndDigit(dig, rem, cmp(rem, mlo), cmp(sum(rem, mhi), S), S, even)]

quorem(b, S, mhi, mlo, even, acc, dig) ==
    DigitOf(dig, IF dig = 0 THEN b ELSE diff(b, multadd(S, dig, 0)), S, mhi, mlo, even, acc)

NextDigit(b, S, mhi, mlo, even, acc) == quorem(b, S, mhi, mlo, even, acc, TenthDigit(b, S))

\* the digits of b / S, which is in [1, 10), up to the first place where they
\* are nearer to it than mlo / S below or mhi / S above; d is the digit at
\* hand and acc holds the digits before it
RECURSIVE ShortestDigits(_, _, _, _)
ShortestDigits(d, S, even, decpt) ==
    IF d.last >= 0 THEN LastDigit(d.acc, d.last, decpt)
    ELSE ShortestDigits(NextDigit(multadd(d.rem, 10, 0), S, multadd(d.mhi, 10, 0),
                                  multadd(d.mlo, 10, 0), even, Append(d.acc, d.dig)),
                        S, even, decpt)

\* b / S is brought into [1, 10), k being the power of ten taken out of it
RECURSIVE Scale(_, _, _, _, _, _)
Scale(b, S, mhi, mlo, even, k) ==
    IF cmp(b, S) < 0
    THEN Scale(multadd(b, 10, 0), S, multadd(mhi, 10, 0), multadd(mlo, 10, 0), even, k - 1)
    ELSE IF cmp(b, multadd(S, 10, 0)) >= 0
    THEN Scale(b, multadd(S, 10, 0), mhi, mlo, even, k + 1)
    ELSE ShortestDigits(NextDigit(b, S, mhi, mlo, even, << >>), S, even, k + 1)

\* the doubles next to a power of two are nearer below than above
UnequalGaps(m, e) == IF m = TwoTo52 /\ e > MinExponent THEN 1 ELSE 0

\* dtoa in mode 0: the shortest digits that round to m * 2^e, and the power of
\* ten decpt before which the first of them stands; k is about decpt - 1.
\* The double, half the gap above it and half the gap below it are
\* b / S, mhi / S and mlo / S times 10^k.
dtoa(m, e, k, gaps) ==
    Scale(pow10mult(lshift(m, Max(e, 0) + 1 + gaps), Max(-k, 0)),
          pow10mult(lshift(<<1>>, Max(-e, 0) + 1 + gaps), Max(k, 0)),
          pow10mult(lshift(<<1>>, Max(e, 0) + gaps), Max(-k, 0)),
          pow10mult(lshift(<<1>>, Max(e, 0)), Max(-k, 0)),
          m[1] % 2 = 0, k)

DigitsText(acc) == CharsOf([i \in DOMAIN acc |-> ord(Ch(DigitSeq, acc[i] + 1))], 1, Len(acc))

\* format_float_short for repr: positional notation when the power of ten of
\* the first digit is in -4..15 and scientific notation otherwise
FloatText(sign, digits, point) ==
    LET n == Len(digits)
        e == point - 1
    IN  IF e >= -4 /\ e < 16
        THEN IF point <= 0 THEN sign \o "0." \o Zeros(-point) \o digits
             ELSE IF point >= n THEN sign \o digits \o Zeros(point - n) \o ".0"
             ELSE sign \o SubSeq(digits, 1, point) \o "." \o SubSeq(digits, point + 1, n)
        ELSE sign \o Ch(digits, 1) \o (IF n > 1 THEN "." \o SubSeq(digits, 2, n) ELSE "")
                  \o "e" \o (IF e < 0 THEN "-" ELSE "+")
                  \o (IF e > -10 /\ e < 10 THEN "0" ELSE "")
                  \o NatText(IF e < 0 THEN -e ELSE e)

ShortestText(sign, short) == FloatText(sign, DigitsText(short.digits), short.decpt)

\* repr of the double x that the text with these parts was rounded to
DoubleRepr(f, x) ==
    IF x.class = "zero" THEN (IF f.negative THEN "-0.0" ELSE "0.0")
    ELSE IF x.class = "inf" THEN (IF f.negative THEN "-inf" ELSE "inf")
    ELSE ShortestText(IF f.negative THEN "-" ELSE "", dtoa(x.m, x.e, f.point - 1, UnequalGaps(x.m, x.e)))

\* float(text) for the source text of a JSON number
float(text) == strtod(FloatParts(text).digits, FloatParts(text).point)

\* repr(float(text))
FloatRepr(text) == DoubleRepr(FloatParts(text), float(text))

(***************************************************************************)
(* repr and str.  The texts are sequences of code points.                  *)
(***************************************************************************)
\* the ranges of the code points for which str.isprintable is false (the
\* Unicode database of the interpreter, version 14.0.0)
NonPrintableRanges ==
  <<<<0, 31>>, <<127, 160>>, <<173, 173>>, <<888, 889>>, <<896, 899>>, <<907, 907>>,
    <<909, 909>>, <<930, 930>>, <<1328, 1328>>, <<1367, 1368>>, <<1419, 1420>>,
    <<1424, 1424>>, <<1480, 1487>>, <<1515, 1518>>, <<1525, 1541>>, <<1564, 1564>>,
    <<1757, 1757>>, <<1806, 1807>>, <<1867, 1868>>, <<1970, 1983>>, <<2043, 2044>>,
    <<2094, 2095>>, <<2111, 2111>>, <<2140, 2141>>, <<2143, 2143>>, <<2155, 2159>>,
    <<2191, 2199>>, <<2274, 2274>>, <<2436, 2436>>, <<2445, 2446>>, <<2449, 2450>>,
    <<2473, 2473>>, <<2481, 2481>>, <<2483, 2485>>, <<2490, 2491>>, <<2501, 2502>>,
    <<2505, 2506>>, <<2511, 2518>>, <<2520, 2523>>, <<2526, 2526>>, <<2532, 2533>>,
    <<2559, 2560>>, <<2564, 2564>>, <<2571, 2574>>, <<2577, 2578>>, <<2601, 2601>>,
    <<2609, 2609>>, <<2612, 2612>>, <<2615, 2615>>, <<2618, 2619>>, <<2621, 2621>>,
    <<2627, 2630>>, <<2633, 2634>>, <<2638, 2640>>, <<2642, 2648>>, <<2653, 2653>>,
    <<2655, 2661>>, <<2679, 2688>>, <<2692, 2692>>, <<2702, 2702>>, <<2706, 2706>>,
    <<2729, 2729>>, <<2737, 2737>>, <<2740, 2740>>, <<2746, 2747>>, <<2758, 2758>>,
    <<2762, 2762>>, <<2766, 2767>>, <<2769, 2783>>, <<2788, 2789>>, <<2802, 2808>>,
    <<2816, 2816>>, <<2820, 2820>>, <<2829, 2830>>, <<2833, 2834>>, <<2857, 2857>>,
    <<2865, 2865>>, <<2868, 2868>>, <<2874, 2875>>, <<2885, 2886>>, <<2889, 2890>>,
    <<2894, 2900>>, <<2904, 2907>>, <<2910, 2910>>, <<2916, 2917>>, <<2936, 2945>>,
    <<2948, 2948>>, <<2955, 2957>>, <<2961, 2961>>, <<2966, 2968>>, <<2971, 2971>>,
    <<2973, 2973>>, <<2976, 2978>>, <<2981, 2983>>, <<2987, 2989>>, <<3002, 3005>>,
    <<3011, 3013>>, <<3017, 3017>>, <<3022, 3023>>, <<3025, 3030>>, <<3032, 3045>>,
    <<3067, 3071>>, <<3085, 3085>>, <<3089, 3089>>, <<3113, 3113>>, <<3130, 3131>>,
    <<3141, 3141>>, <<3145, 3145>>, <<3150, 3156>>, <<3159, 3159>>, <<3163, 3164>>,
    <<3166, 3167>>, <<3172, 3173>>, <<3184, 3190>>, <<3213, 3213>>, <<3217, 3217>>,
    <<3241, 3241>>, <<3252, 3252>>, <<3258, 3259>>, <<3269, 3269>>, <<3273, 3273>>,
    <<3278, 3284>>, <<3287, 3292>>, <<3295, 3295>>, <<3300, 3301>>, <<3312, 3312>>,
    <<3315, 3327>>, <<3341, 3341>>, <<3345, 3345>>, <<3397, 3397>>, <<3401, 3401>>,
    <<3408, 3411>>, <<3428, 3429>>, <<3456, 3456>>, <<3460, 3460>>, <<3479, 3481>>,
    <<3506, 3506>>, <<3516, 3516>>, <<3518, 3519>>, <<3527, 3529>>, <<3531, 3534>>,
    <<3541, 3541>>, <<3543, 3543>>, <<3552, 3557>>, <<3568, 3569>>, <<3573, 3584>>,
    <<3643, 3646>>, <<3676, 3712>>, <<3715, 3715>>, <<3717, 3717>>, <<3723, 3723>>,
    <<3748, 3748>>, <<3750, 3750>>, <<3774, 3775>>, <<3781, 3781>>, <<3783, 3783>>,
    <<3790, 3791>>, <<3802, 3803>>, <<3808, 3839>>, <<3912, 3912>>, <<3949, 3952>>,
    <<3992, 3992>>, <<4029, 4029>>, <<4045, 4045>>, <<4059, 4095>>, <<4294, 4294>>,
    <<4296, 4300>>, <<4302, 4303>>, <<4681, 4681>>, <<4686, 4687>>, <<4695, 4695>>,
    <<4697, 4697>>, <<4702, 4703>>, <<4745, 4745>>, <<4750, 4751>>, <<4785, 4785>>,
    <<4790, 4791>>, <<4799, 4799>>, <<4801, 4801>>, <<4806, 4807>>, <<4823, 4823>>,
    <<4881, 4881>>, <<4886, 4887>>, <<4955, 4956>>, <<4989, 4991>>, <<5018, 5023>>,
    <<5110, 5111>>, <<5118, 5119>>, <<5760, 5760>>, <<5789, 5791>>, <<5881, 5887>>,
    <<5910, 5918>>, <<5943, 5951>>, <<5972, 5983>>, <<5997, 5997>>, <<6001, 6001>>,
    <<6004, 6015>>, <<6110, 6111>>, <<6122, 6127>>, <<6138, 6143>>, <<6158, 6158>>,
    <<6170, 6175>>, <<6265, 6271>>, <<6315, 6319>>, <<6390, 6399>>, <<6431, 6431>>,
    <<6444, 6447>>, <<6460, 6463>>, <<6465, 6467>>, <<6510, 6511>>, <<6517, 6527>>,
    <<6572, 6575>>, <<6602, 6607>>, <<6619, 6621>>, <<6684, 6685>>, <<6751, 6751>>,
    <<6781, 6782>>, <<6794, 6799>>, <<6810, 6815>>, <<6830, 6831>>, <<6863, 6911>>,
    <<6989, 6991>>, <<7039, 7039>>, <<7156, 7163>>, <<7224, 7226>>, <<7242, 7244>>,
    <<7305, 7311>>, <<7355, 7356>>, <<7368, 7375>>, <<7419, 7423>>, <<7958, 7959>>,
    <<7966, 7967>>, <<8006, 8007>>, <<8014, 8015>>, <<8024, 8024>>, <<8026, 8026>>,
    <<8028, 8028>>, <<8030, 8030>>, <<8062, 8063>>, <<8117, 8117>>, <<8133, 8133>>,
    <<8148, 8149>>, <<8156, 8156>>, <<8176, 8177>>, <<8181, 8181>>, <<8191, 8207>>,
    <<8232, 8239>>, <<8287, 8303>>, <<8306, 8307>>, <<8335, 8335>>, <<8349, 8351>>,
    <<8385, 8399>>, <<8433, 8447>>, <<8588, 8591>>, <<9255, 9279>>, <<9291, 9311>>,
    <<11124, 11125>>, <<11158, 11158>>, <<11508, 11512>>, <<11558, 11558>>,
    <<11560, 11564>>, <<11566, 11567>>, <<11624, 11630>>, <<11633, 11646>>,
    <<11671, 11679>>, <<11687, 11687>>, <<11695, 11695>>, <<11703, 11703>>,
    <<11711, 11711>>, <<11719, 11719>>, <<11727, 11727>>, <<11735, 11735>>,
    <<11743, 11743>>, <<11870, 11903>>, <<11930, 11930>>, <<12020, 12031>>,
    <<12246, 12271>>, <<12284, 12288>>, <<12352, 12352>>, <<12439, 12440>>,
    <<12544, 12548>>, <<12592, 12592>>, <<12687, 12687>>, <<12772, 12783>>,
    <<12831, 12831>>, <<42125, 42127>>, <<42183, 42191>>, <<42540, 42559>>,
    <<42744, 42751>>, <<42955, 42959>>, <<42962, 42962>>, <<42964, 42964>>,
    <<42970, 42993>>, <<43053, 43055>>, <<43066, 43071>>, <<43128, 43135>>,
    <<43206, 43213>>, <<43226, 43231>>, <<43348, 43358>>, <<43389, 43391>>,
    <<43470, 43470>>, <<43482, 43485>>, <<43519, 43519>>, <<43575, 43583>>,
    <<43598, 43599>>, <<43610, 43611>>, <<43715, 43738>>, <<43767, 43776>>,
    <<43783, 43784>>, <<43791, 43792>>, <<43799, 43807>>, <<43815, 43815>>,
    <<43823, 43823>>, <<43884, 43887>>, <<44014, 44015>>, <<44026, 44031>>,
    <<55204, 55215>>, <<55239, 55242>>, <<55292, 63743>>, <<64110, 64111>>,
    <<64218, 64255>>, <<64263, 64274>>, <<64280, 64284>>, <<64311, 64311>>,
    <<64317, 64317>>, <<64319, 64319>>, <<64322, 64322>>, <<64325, 64325>>,
    <<64451, 64466>>, <<64912, 64913>>, <<64968, 64974>>, <<64976, 65007>>,
    <<65050, 65055>>, <<65107, 65107>>, <<65127, 65127>>, <<65132, 65135>>,
    <<65141, 65141>>, <<65277, 65280>>, <<65471, 65473>>, <<65480, 65481>>,
    <<65488, 65489>>, <<65496, 65497>>, <<65501, 65503>>, <<65511, 65511>>,
    <<65519, 65531>>, <<65534, 65535>>, <<65548, 65548>>, <<65575, 65575>>,
    <<65595, 65595>>, <<65598, 65598>>, <<65614, 65615>>, <<65630, 65663>>,
    <<65787, 65791>>, <<65795, 65798>>, <<65844, 65846>>, <<65935, 65935>>,
    <<65949, 65951>>, <<65953, 65999>>, <<66046, 66175>>, <<66205, 66207>>,
    <<66257, 66271>>, <<66300, 66303>>, <<66340, 66348>>, <<66379, 66383>>,
    <<66427, 66431>>, <<66462, 66462>>, <<66500, 66503>>, <<66518, 66559>>,
    <<66718, 66719>>, <<66730, 66735>>, <<66772, 66775>>, <<66812, 66815>>,
    <<66856, 66863>>, <<66916, 66926>>, <<66939, 66939>>, <<66955, 66955>>,
    <<66963, 66963>>, <<66966, 66966>>, <<66978, 66978>>, <<66994, 66994>>,
    <<67002, 67002>>, <<67005, 67071>>, <<67383, 67391>>, <<67414, 67423>>,
    <<67432, 67455>>, <<67462, 67462>>, <<67505, 67505>>, <<67515, 67583>>,
    <<67590, 67591>>, <<67593, 67593>>, <<67638, 67638>>, <<67641, 67643>>,
    <<67645, 67646>>, <<67670, 67670>>, <<67743, 67750>>, <<67760, 67807>>,
    <<67827, 67827>>, <<67830, 67834>>, <<67868, 67870>>, <<67898, 67902>>,
    <<67904, 67967>>, <<68024, 68027>>, <<68048, 68049>>, <<68100, 68100>>,
    <<68103, 68107>>, <<68116, 68116>>, <<68120, 68120>>, <<68150, 68151>>,
    <<68155, 68158>>, <<68169, 68175>>, <<68185, 68191>>, <<68256, 68287>>,
    <<68327, 68330>>, <<68343, 68351>>, <<68406, 68408>>, <<68438, 68439>>,
    <<68467, 68471>>, <<68498, 68504>>, <<68509, 68520>>, <<68528, 68607>>,
    <<68681, 68735>>, <<68787, 68799>>, <<68851, 68857>>, <<68904, 68911>>,
    <<68922, 69215>>, <<69247, 69247>>, <<69290, 69290>>, <<69294, 69295>>,
    <<69298, 69375>>, <<69416, 69423>>, <<69466, 69487>>, <<69514, 69551>>,
    <<69580, 69599>>, <<69623, 69631>>, <<69710, 69713>>, <<69750, 69758>>,
    <<69821, 69821>>, <<69827, 69839>>, <<69865, 69871>>, <<69882, 69887>>,
    <<69941, 69941>>, <<69960, 69967>>, <<70007, 70015>>, <<70112, 70112>>,
    <<70133, 70143>>, <<70162, 70162>>, <<70207, 70271>>, <<70279, 70279>>,
    <<70281, 70281>>, <<70286, 70286>>, <<70302, 70302>>, <<70314, 70319>>,
    <<70379, 70383>>, <<70394, 70399>>, <<70404, 70404>>, <<70413, 70414>>,
    <<70417, 70418>>, <<70441, 70441>>, <<70449, 70449>>, <<70452, 70452>>,
    <<70458, 70458>>, <<70469, 70470>>, <<70473, 70474>>, <<70478, 70479>>,
    <<70481, 70486>>, <<70488, 70492>>, <<70500, 70501>>, <<70509, 70511>>,
    <<70517, 70655>>, <<70748, 70748>>, <<70754, 70783>>, <<70856, 70863>>,
    <<70874, 71039>>, <<71094, 71095>>, <<71134, 71167>>, <<71237, 71247>>,
    <<71258, 71263>>, <<71277, 71295>>, <<71354, 71359>>, <<71370, 71423>>,
    <<71451, 71452>>, <<71468, 71471>>, <<71495, 71679>>, <<71740, 71839>>,
    <<71923, 71934>>, <<71943, 71944>>, <<71946, 71947>>, <<71956, 71956>>,
    <<71959, 71959>>, <<71990, 71990>>, <<71993, 71994>>, <<72007, 72015>>,
    <<72026, 72095>>, <<72104, 72105>>, <<72152, 72153>>, <<72165, 72191>>,
    <<72264, 72271>>, <<72355, 72367>>, <<72441, 72703>>, <<72713, 72713>>,
    <<72759, 72759>>, <<72774, 72783>>, <<72813, 72815>>, <<72848, 72849>>,
    <<72872, 72872>>, <<72887, 72959>>, <<72967, 72967>>, <<72970, 72970>>,
    <<73015, 73017>>, <<73019, 73019>>, <<73022, 73022>>, <<73032, 73039>>,
    <<73050, 73055>>, <<73062, 73062>>, <<73065, 73065>>, <<73103, 73103>>,
    <<73106, 73106>>, <<73113, 73119>>, <<73130, 73439>>, <<73465, 73647>>,
    <<73649, 73663>>, <<73714, 73726>>, <<74650, 74751>>, <<74863, 74863>>,
    <<74869, 74879>>, <<75076, 77711>>, <<77811, 77823>>, <<78895, 82943>>,
    <<83527, 92159>>, <<92729, 92735>>, <<92767, 92767>>, <<92778, 92781>>,
    <<92863, 92863>>, <<92874, 92879>>, <<92910, 92911>>, <<92918, 92927>>,
    <<92998, 93007>>, <<93018, 93018>>, <<93026, 93026>>, <<93048, 93052>>,
    <<93072, 93759>>, <<93851, 93951>>, <<94027, 94030>>, <<94088, 94094>>,
    <<94112, 94175>>, <<94181, 94191>>, <<94194, 94207>>, <<100344, 100351>>,
    <<101590, 101631>>, <<101641, 110575>>, <<110580, 110580>>, <<110588, 110588>>,
    <<110591, 110591>>, <<110883, 110927>>, <<110931, 110947>>, <<110952, 110959>>,
    <<111356, 113663>>, <<113771, 113775>>, <<113789, 113791>>, <<113801, 113807>>,
    <<113818, 113819>>, <<113824, 118527>>, <<118574, 118575>>, <<118599, 118607>>,
    <<118724, 118783>>, <<119030, 119039>>, <<119079, 119080>>, <<119155, 119162>>,
    <<119275, 119295>>, <<119366, 119519>>, <<119540, 119551>>, <<119639, 119647>>,
    <<119673, 119807>>, <<119893, 119893>>, <<119965, 119965>>, <<119968, 119969>>,
    <<119971, 119972>>, <<119975, 119976>>, <<119981, 119981>>, <<119994, 119994>>,
    <<119996, 119996>>, <<120004, 120004>>, <<120070, 120070>>, <<120075, 120076>>,
    <<120085, 120085>>, <<120093, 120093>>, <<120122, 120122>>, <<120127, 120127>>,
    <<120133, 120133>>, <<120135, 120137>>, <<120145, 120145>>, <<120486, 120487>>,
    <<120780, 120781>>, <<121484, 121498>>, <<121504, 121504>>, <<121520, 122623>>,
    <<122655, 122879>>, <<122887, 122887>>, <<122905, 122906>>, <<122914, 122914>>,
    <<122917, 122917>>, <<122923, 123135>>, <<123181, 123183>>, <<123198, 123199>>,
    <<123210, 123213>>, <<123216, 123535>>, <<123567, 123583>>, <<123642, 123646>>,
    <<123648, 124895>>, <<124903, 124903>>, <<124908, 124908>>, <<124911, 124911>>,
    <<124927, 124927>>, <<125125, 125126>>, <<125143, 125183>>, <<125260, 125263>>,
    <<125274, 125277>>, <<125280, 126064>>, <<126133, 126208>>, <<126270, 126463>>,
    <<126468, 126468>>, <<126496, 126496>>, <<126499, 126499>>, <<126501, 126502>>,
    <<126504, 126504>>, <<126515, 126515>>, <<126520, 126520>>, <<126522, 126522>>,
    <<126524, 126529>>, <<126531, 126534>>, <<126536, 126536>>, <<126538, 126538>>,
    <<126540, 126540>>, <<126544, 126544>>, <<126547, 126547>>, <<126549, 126550>>,
    <<126552, 126552>>, <<126554, 126554>>, <<126556, 126556>>, <<126558, 126558>>,
    <<126560, 126560>>, <<126563, 126563>>, <<126565, 126566>>, <<126571, 126571>>,
    <<126579, 126579>>, <<126584, 126584>>, <<126589, 126589>>, <<126591, 126591>>,
    <<126602, 126602>>, <<126620, 126624>>, <<126628, 126628>>, <<126634, 126634>>,
    <<126652, 126703>>, <<126706, 126975>>, <<127020, 127023>>, <<127124, 127135>>,
    <<127151, 127152>>, <<127168, 127168>>, <<127184, 127184>>, <<127222, 127231>>,
    <<127406, 127461>>, <<127491, 127503>>, <<127548, 127551>>, <<127561, 127567>>,
    <<127570, 127583>>, <<127590, 127743>>, <<128728, 128732>>, <<128749, 128751>>,
    <<128765, 128767>>, <<128884, 128895>>, <<128985, 128991>>, <<129004, 129007>>,
    <<129009, 129023>>, <<129036, 129039>>, <<129096, 129103>>, <<129114, 129119>>,
    <<129160, 129167>>, <<129198, 129199>>, <<129202, 129279>>, <<129620, 129631>>,
    <<129646, 129647>>, <<129653, 129655>>, <<129661, 129663>>, <<129671, 129679>>,
    <<129709, 129711>>, <<129723, 129727>>, <<129734, 129743>>, <<129754, 129759>>,
    <<129768, 129775>>, <<129783, 129791>>, <<129939, 129939>>, <<129995, 130031>>,
    <<130042, 131071>>, <<173792, 173823>>, <<177977, 177983>>, <<178206, 178207>>,
    <<183970, 183983>>, <<191457, 194559>>, <<195102, 196607>>, <<201547, 917759>>,
    <<918000, 1114111>>>>

isprintable(code) ==
    ~\E i \in DOMAIN NonPrintableRanges :
        NonPrintableRanges[i][1] <= code /\ code <= NonPrintableRanges[i][2]

\* the code as width hexadecimal digits
HexCodes(code, width) ==
    [i \in 1..width |-> ord(Ch(HexSeq, ((code \div (16 ^ (width - i))) % 16) + 1))]

\* what repr writes for one code point of a string between quotes
EscapedCode(code, quote) ==
    CASE code = 92 \/ code = quote -> <<92, code>>
      [] code = 9 -> Codes("\\t")
      [] code = 10 -> Codes("\\n")
      [] code = 13 -> Codes("\\r")
      [] OTHER ->
           IF isprintable(code) THEN <<code>>
           ELSE IF code < 256 THEN Codes("\\x") \o HexCodes(code, 2)
           ELSE IF code < 65536 THEN Codes("\\u") \o HexCodes(code, 4)
           ELSE Codes("\\U") \o HexCodes(code, 8)

EscapedText(t, quote) == Concat([i \in DOMAIN t |-> EscapedCode(t[i], quote)], 1, Len(t))

SingleQuote == ord("'")
DoubleQuote == ord("\"")

\* repr of a string: between double quotes when it has a single quote and no
\* double quote
StrRepr(t) ==
    IF (\E i \in DOMAIN t : t[i] = SingleQuote) /\ ~\E i \in DOMAIN t : t[i] = DoubleQuote
    THEN <<DoubleQuote>> \o EscapedText(t, DoubleQuote) \o <<DoubleQuote>>
    ELSE <<SingleQuote>> \o EscapedText(t, SingleQuote) \o <<SingleQuote>>

\* the sequence of texts joined by ", "
JoinComma(texts) ==
    Concat([i \in 1..(2 * Len(texts) - 1) |->
               IF i % 2 = 1 THEN texts[(i + 1) \div 2] ELSE <<44, 32>>],
           1, 2 * Len(texts) - 1)

\* repr(v)
RECURSIVE PyRepr(_)
PyRepr(v) ==
    CASE v.kind = "string" -> StrRepr(v.items)
      [] v.kind = "int" -> IF v.text = "-0" THEN Codes("0") ELSE Codes(v.text)
      [] v.kind = "float" -> Codes(FloatRepr(v.text))
      [] v.kind = "true" -> Codes("True")
      [] v.kind = "false" -> Codes("False")
      [] v.kind = "null" -> Codes("None")
      [] v.kind = "NaN" -> Codes("nan")
      [] v.kind = "Infinity" -> Codes("inf")
      [] v.kind = "-Infinity" -> Codes("-inf")
      [] v.kind = "array" ->
             <<91>> \o JoinComma([i \in DOMAIN v.items |-> PyRepr(v.items[i])]) \o <<93>>
      [] v.kind = "object" ->
             LET items == DictItems(v.items)
             IN  <<123>> \o JoinComma([i \in DOMAIN items |->
                                         StrRepr(items[i].key) \o <<58, 32>>
                                             \o PyRepr(items[i].value)])
                     \o <<125>>

\* str(v), which an f-string puts in the text
PyStr(v) == IF v.kind = "string" THEN v.items ELSE PyRepr(v)

\* bool(v)
PyTruth(v) ==
    CASE v.kind = "string" -> v.items # << >>
      [] v.kind = "int" -> v.text \notin {"0", "-0"}
      [] v.kind = "float" -> float(v.text).class # "zero"
      [] v.kind \in {"false", "null"} -> FALSE
      [] v.kind \in {"array", "object"} -> v.items # << >>
      [] OTHER -> TRUE

GenericFollowUp == "Would you like to check compatibility or get installation instructions?"

\* lines 538-543 for the parsed result.  "error" in result_data is a key test
\* on a dict, a substring test on a str, an element test on a list and a
\* TypeError otherwise; .get exists on a dict only; whatever is raised gives the
\* generic suggestion.
FollowUpFor(result_data) ==
    IF result_data.kind = "object"
    THEN IF HasKey(result_data.items, Codes("error")) THEN None
         ELSE IF HasKey(result_data.items, Codes("name"))
                 /\ PyTruth(Member(result_data.items, Codes("name")))
         THEN Text(Codes("Would you like installation instructions for the ")
                       \o PyStr(Member(result_data.items, Codes("name"))) \o Codes("?"))
         ELSE None
    ELSE IF result_data.kind = "string"
    THEN IF Contains(result_data.items, Codes("error")) THEN None ELSE GenericFollowUp
    ELSE IF result_data.kind = "array"
    THEN IF \E i \in DOMAIN result_data.items :
                /\ result_data.items[i].kind = "string"
                /\ result_data.items[i].items = Codes("error")
         THEN None ELSE GenericFollowUp
    ELSE GenericFollowUp

\* lines 532-546, parsed being what json.loads made of the result
FollowUpOfParsed(parsed) == IF parsed.ok THEN FollowUpFor(parsed.val) ELSE GenericFollowUp

\* _generate_follow_up(intent, result) in a frame at recursion depth depth
generate_follow_up(intent, result, depth) ==
    IF intent # "lookup" THEN None ELSE FollowUpOfParsed(json_loads(result, depth))

(***************************************************************************)
(* part_agent.py: _init_tools and _run_tool_for_intent                     *)
(***************************************************************************)
\* status is routed to the order-status tool
intent_tool_map_WithStatus ==
    [lookup |-> "product_lookup_tool",
     compatibility |-> "compatibility_tool",
     install |-> "installation_guide_tool",
     diagnose |-> "error_diagnosis_tool",
     cart |-> "cart_tool",
     order |-> "order_status_tool",
     status |-> "order_status_tool"]

intent_tool_map ==
    [lookup |-> "product_lookup_tool",
     compatibility |-> "compatibility_tool",
     install |-> "installation_guide_tool",
     diagnose |-> "error_diagnosis_tool",
     cart |-> "cart_tool",
     order |-> "order_status_tool"]

\* the dict a call hands back
DispatchResult(tool_name, result, follow_up) ==
    [tool_name |-> tool_name, result |-> result, follow_up |-> follow_up]

UnknownIntentResult ==
    DispatchResult("unknown_intent", "I'm not sure how to process that request.", None)

\* an addition is sent without its quantity
CartSubQuery_WithoutQuantity(params, action) ==
    IF action = "add" /\ "part_number" \in DOMAIN params
    THEN "add:" \o params["part_number"]
    ELSE IF action = "remove" /\ "part_number" \in DOMAIN params
    THEN "remove:" \o params["part_number"]
    ELSE IF action = "clear" THEN "clear"
    ELSE "view"

\* lines 293-303: the operation sent to the cart handler
CartSubQuery(params, action) ==
    IF action = "add" /\ "part_number" \in DOMAIN params
    THEN "add:" \o params["part_number"] \o ":" \o Get(params, "quantity", "1")
    ELSE IF action = "remove" /\ "part_number" \in DOMAIN params
    THEN "remove:" \o params["part_number"]
    ELSE IF action = "clear" THEN "clear"
    ELSE "view"

\* the string handed to the handler, built from the parameters extracted at line 230
\* (the cart and order branches extract them again from the same text)
SubQuery(intent, params, user_input) ==
    LET WithAppliance(head) ==
            IF Get(params, "appliance_type", "") # ""
            THEN head \o ":" \o params["appliance_type"] ELSE head
    IN  CASE intent = "lookup" -> Get(params, "part_number", "")
          [] intent = "compatibility" ->
                Get(params, "part_number", "") \o ":" \o Get(params, "model_number", "")
          [] intent = "install" -> WithAppliance(Get(params, "part_name", ""))
          [] intent = "diagnose" -> WithAppliance(Get(params, "problem", ""))
          [] intent = "cart" -> CartSubQuery(params, Get(params, "action", "view"))
          [] intent = "order" ->
                IF "order_number" \in DOMAIN params /\ "email" \in DOMAIN params
                THEN params["order_number"] \o ":" \o params["email"]
                ELSE IF "order_number" \in DOMAIN params THEN params["order_number"]
                ELSE IF "email" \in DOMAIN params THEN "email:" \o params["email"]
                ELSE "status"
          [] OTHER -> user_input

\* a handler result nested as deep as the scanner gets 15 calls below the
\* recursion limit
NestedResult == NestedPart(RecursionLimit - 15)

\* the results a handler returns when two calls may overlap
OverlapResults == HandlerResults \cup {NestedResult}

\* _generate_follow_up("lookup", result) depends on the result and on the
\* recursion depth of its frame only.  It is tabulated once for the results
\* of the model and the depths of its callers, whose process_query awaits
\* _run_tool_for_intent, which calls _generate_follow_up.
RECURSIVE TabulateFollowUps(_)
TabulateFollowUps(S) ==
    IF S = {} THEN << >>
    ELSE LET x == CHOOSE x \in S : TRUE
         IN  (x :> generate_follow_up("lookup", x[1], x[2])) @@ TabulateFollowUps(S \ {x})

FollowUpMemo == TabulateFollowUps(OverlapResults \X {CallerDepth[c] + 2 : c \in Callers})

\* the entry of a table, or the follow-up itself when the table has none
TabulatedFollowUp(memo, result, depth) ==
    IF <<result, depth>> \in DOMAIN memo THEN memo[<<result, depth>>]
    ELSE generate_follow_up("lookup", result, depth)

\* the follow-up of a turn whose handler returned, _run_tool_for_intent
\* running in a frame at recursion depth depth (line 347 calls
\* _generate_follow_up one frame deeper)
FollowUp(intent, params, result, depth) ==
    CASE intent = "lookup" -> TabulatedFollowUp(FollowUpMemo, result, depth + 1)
      [] intent = "compatibility" -> "Would you like to see installation instructions for this part?"
      [] intent = "install" -> "Do you need help finding this part?"
      [] intent = "diagnose" -> "Would you like me to help you find any of these parts?"
      [] intent = "cart" ->
            LET action == Get(params, "action", "view")
            IN  IF action = "add" THEN "Would you like to view your cart or continue shopping?"
                ELSE IF action = "view" THEN "Would you like to checkout or continue shopping?"
                ELSE "Is there anything else you'd like to do with your cart?"
      [] intent = "order" -> "Would you like to check another order or continue shopping?"
      [] OTHER -> None

\* the dict returned when the handler returned result
ToolSuccess(intent, params, result, depth) ==
    DispatchResult(intent_tool_map[intent], result, FollowUp(intent, params, result, depth))

\* the handler's exception leaves the call instead of being caught: no dict
ToolError_Escapes(message) ==
    [exception |-> message]

\* the reply does not say what went wrong
ToolError_WithoutMessage(message) ==
    DispatchResult("error",
                   "I encountered an error while processing your request.",
                   "Could you try rephrasing your question?")

\* the except branch: the dict returned when the handler raised
ToolError(message) ==
    DispatchResult("error",
                   "I encountered an error while processing your request: " \o message,
                   "Could you try rephrasing your question?")

(***************************************************************************)
(* part_agent.py: process_query up to its first suspension point           *)
(***************************************************************************)
\* the rejection carries the hint of the fallback reply
ScopeRejection_WithHint ==
    DispatchResult("out_of_scope",
        "I'm sorry, but I can only help with questions about refrigerator and dishwasher parts.",
        "Try asking about finding a specific part, checking compatibility, installation instructions, or diagnosing a problem.")

ScopeRejection ==
    DispatchResult("out_of_scope",
        "I'm sorry, but I can only help with questions about refrigerator and dishwasher parts.",
        None)

FallbackRejection ==
    DispatchResult("out_of_scope",
        "I understand your question is about appliance parts, but I'm not sure how to help specifically. Could you please rephrase your question about refrigerator or dishwasher parts?",
        "Try asking about finding a specific part, checking compatibility, installation instructions, or diagnosing a problem.")

\* line 149: both the intent and the enhanced query must be truthy
Resolved(e) == IF Truthy(e[1]) /\ Truthy(e[2]) THEN e ELSE NoEnhancement

\* lines 145-151: the resolved (intent, enhanced_query), or NoEnhancement
ResolveFromContext(user_input, ctx) ==
    IF is_context_dependent_query(user_input, ctx)
    THEN Resolved(enhance_query_with_context(user_input, ctx))
    ELSE NoEnhancement

\* the scope check of lines 153-161 is left out
Routed_WithoutScopeCheck(user_input, resolved, a) ==
    IF resolved # NoEnhancement
    THEN [route |-> "context", intent |-> resolved[1], tool_input |-> resolved[2]]
    ELSE [route |-> "rules", intent |-> a.intent, tool_input |-> user_input]

\* lines 145-178, given the outcome of context resolution and the analysis a
\* of the text: where the call is heading before the LLM could be asked
\*   route "context"  dispatched with the intent and text resolved from context
\*   route "scope"    rejected by is_in_scope
\*   route "rules"    labelled by extract_intent and the diagnose override
Routed(user_input, resolved, a) ==
    IF resolved # NoEnhancement
    THEN [route |-> "context", intent |-> resolved[1], tool_input |-> resolved[2]]
    ELSE IF ~a.in_scope
    THEN [route |-> "scope", intent |-> None, tool_input |-> None]
    ELSE [route |-> "rules", intent |-> a.intent, tool_input |-> user_input]

Decide(user_input, ctx) ==
    Routed(user_input, ResolveFromContext(user_input, ctx), Analysis(user_input))

\* line 181: the LLM is asked when the label is out_of_scope and the tool exists
ConsultsLLM(d, llm_configured) ==
    d.route = "rules" /\ d.intent = "out_of_scope" /\ llm_configured

\* what the LLM classifier can answer during a call: nothing when it is not asked
LLMAnswers(d, llm_configured) ==
    IF ConsultsLLM(d, llm_configured) THEN LLMOutcomes ELSE {LLMRaises}

\* lines 180-199: the label after the LLM was asked (a failure keeps the label)
\*   route "fallback"    still out_of_scope after classification
\*   route "classified"  dispatched with the label and the raw text
Classified(d, intent, asked) ==
    IF intent = "out_of_scope"
    THEN [route |-> "fallback", intent |-> intent, tool_input |-> None, llm_calls |-> asked]
    ELSE [route |-> "classified", intent |-> intent, tool_input |-> d.tool_input,
          llm_calls |-> asked]

AfterLLM(d, llm_configured, llm) ==
    IF d.route # "rules"
    THEN [route |-> d.route, intent |-> d.intent, tool_input |-> d.tool_input, llm_calls |-> 0]
    ELSE IF ConsultsLLM(d, llm_configured)
    THEN Classified(d, IF llm # LLMRaises THEN llm ELSE d.intent, 1)
    ELSE Classified(d, d.intent, 0)

(***************************************************************************)
(* State                                                                   *)
(***************************************************************************)
VARIABLES
    conversation_context,         \* PartSelectAgent.conversation_context
    intent_classification_tool,   \* TRUE when the agent was built with an LLM classifier
    inflight,                     \* per caller: the process_query call suspended in its handler
    last,                         \* the most recently completed process_query call
    probe,                        \* a direct call of is_in_scope: its text and its verdict
    manager,                      \* ConnectionManager: active_connections and user_sessions
    cart_store                    \* ws_server_simple_backup.py: session id -> items in the cart

vars == <<conversation_context, intent_classification_tool, inflight, last, probe,
          manager, cart_store>>

\* ConnectionManager.__init__: no connection, no session
NoConnections == [active_connections |-> << >>, user_sessions |-> << >>]

Idle == [user_input |-> None, route |-> "idle", intent |-> None, tool_input |-> None,
         params |-> EmptyParams, sub_query |-> None, handler_calls |-> 0, llm_calls |-> 0]

NoTurn == [caller |-> None, user_input |-> None, route |-> "none", intent |-> None,
           tool_input |-> None, params |-> EmptyParams, sub_query |-> None,
           handler_calls |-> 0, llm_calls |-> 0,
           handler_outcome |-> "none", handler_value |-> None,
           outcome |-> "none", tool_name |-> None, result |-> None, follow_up |-> None]

\* a call ends by returning a dict, or by raising
ReturnsDict(d) == DOMAIN d = {"tool_name", "result", "follow_up"}

\* the call ends by raising the exception
Raised(exception) == [raised |-> exception]

\* the completed call: what it was, what its handler did, and how it ended
Completed(c, call, handler_outcome, handler_value, d) ==
    [caller |-> c, user_input |-> call.user_input, route |-> call.route, intent |-> call.intent,
     tool_input |-> call.tool_input, params |-> call.params, sub_query |-> call.sub_query,
     handler_calls |-> call.handler_calls, llm_calls |-> call.llm_calls,
     handler_outcome |-> handler_outcome, handler_value |-> handler_value,
     outcome |-> IF ReturnsDict(d) THEN "returned" ELSE "raised",
     tool_name |-> IF ReturnsDict(d) THEN d.tool_name ELSE None,
     result |-> IF ReturnsDict(d) THEN d.result ELSE None,
     follow_up |-> IF ReturnsDict(d) THEN d.follow_up ELSE None]

\* what the completed call gave its caller: the dict, or the exception
ReplyOf(turn) ==
    IF turn.outcome = "raised" THEN Raised(turn.handler_value)
    ELSE DispatchResult(turn.tool_name, turn.result, turn.follow_up)

NoProbe == [text |-> None, checked |-> FALSE, in_scope |-> FALSE]

Init ==
    /\ manager = NoConnections
    /\ cart_store = << >>
    /\ conversation_context = InitialContext
    /\ intent_classification_tool \in BOOLEAN
    /\ inflight = [c \in Callers |-> Idle]
    /\ last = NoTurn
    /\ probe = NoProbe

(***************************************************************************)
(* Actions                                                                 *)
(***************************************************************************)
\* the context is never written
ContextAfterTurn_Unwritten(ctx, call) == ctx

\* the context is written after a context-resolved dispatch too
ContextAfterTurn_EveryDispatch(ctx, call) ==
    update_conversation_context(ctx, call.intent, call.user_input)

\* the context is written only when a handler is registered for the label
ContextAfterTurn_RegisteredOnly(ctx, call) ==
    IF call.route = "classified" /\ call.intent \in DOMAIN intent_tool_map
    THEN update_conversation_context(ctx, call.intent, call.user_input)
    ELSE ctx

\* lines 201-202 after a classified dispatch; a context-resolved dispatch returns at line 151
ContextAfterTurn(ctx, call) ==
    IF call.route = "classified"
    THEN update_conversation_context(ctx, call.intent, call.user_input)
    ELSE ctx

\* the record of a call that took decision d
NewCall(user_input, d) ==
    [user_input |-> user_input, route |-> d.route, intent |-> d.intent,
     tool_input |-> d.tool_input, params |-> EmptyParams, sub_query |-> None,
     handler_calls |-> 0, llm_calls |-> d.llm_calls]

\* lines 226-232: the call as it awaits its handler, with the parameters of line 230
Awaiting(call, params) ==
    [call EXCEPT !.params = params,
                 !.sub_query = SubQuery(call.intent, params, call.tool_input),
                 !.handler_calls = 1]

\* the call returns at once, or is suspended in its handler
Dispatch(c, call) ==
    IF call.route = "scope"
    THEN /\ last' = Completed(c, call, "none", None, ScopeRejection)
         /\ UNCHANGED <<conversation_context, inflight>>
    ELSE IF call.route = "fallback"
    THEN /\ last' = Completed(c, call, "none", None, FallbackRejection)
         /\ UNCHANGED <<conversation_context, inflight>>
    ELSE IF call.intent \notin DOMAIN intent_tool_map
    THEN /\ last' = Completed(c, call, "none", None, UnknownIntentResult)
         /\ conversation_context' = ContextAfterTurn(conversation_context, call)
         /\ UNCHANGED inflight
    ELSE /\ inflight' = [inflight EXCEPT ![c] =
                            Awaiting(call, Parameters(call.intent, call.tool_input))]
         /\ UNCHANGED <<conversation_context, last>>

\* lines 180-188: the LLM classifier, when asked, answers or raises
Classify(c, user_input, d) ==
    \E llm \in LLMAnswers(d, intent_classification_tool) :
        Dispatch(c, NewCall(user_input, AfterLLM(d, intent_classification_tool, llm)))

\* process_query(user_input) is called and runs until it returns or awaits its handler
Begin(c, user_input) ==
    /\ inflight[c] = Idle
    /\ Classify(c, user_input, Decide(user_input, conversation_context))
    /\ UNCHANGED <<intent_classification_tool, probe, manager, cart_store>>

\* the awaited handler returns result
HandlerReturns(c, result) ==
    LET call == inflight[c]
    IN  /\ call # Idle
        /\ last' = Completed(c, call, "returned", result,
                            ToolSuccess(call.intent, call.params, result,
                                        CallerDepth[c] + 1))
        /\ conversation_context' = ContextAfterTurn(conversation_context, call)
        /\ inflight' = [inflight EXCEPT ![c] = Idle]
        /\ UNCHANGED <<intent_classification_tool, probe, manager, cart_store>>

\* the awaited handler raises an exception with the given message
HandlerRaises(c, message) ==
    LET call == inflight[c]
    IN  /\ call # Idle
        /\ last' = Completed(c, call, "raised", message, ToolError(message))
        /\ conversation_context' = ContextAfterTurn(conversation_context, call)
        /\ inflight' = [inflight EXCEPT ![c] = Idle]
        /\ UNCHANGED <<intent_classification_tool, probe, manager, cart_store>>

\* the awaited handler raises an exception that is not an Exception: line 353
\* does not catch it, and it leaves _run_tool_for_intent and process_query,
\* which returns no dict and does not reach the context update of line 202
HandlerRaisesUncaught(c, exception) ==
    LET call == inflight[c]
    IN  /\ call # Idle
        /\ last' = Completed(c, call, "uncaught", exception, Raised(exception))
        /\ inflight' = [inflight EXCEPT ![c] = Idle]
        /\ UNCHANGED <<conversation_context, intent_classification_tool, probe, manager,
                       cart_store>>

\* every caller awaits process_query of the one agent for each message it
\* has, whatever the calls of the other caller are doing, as the
\* connections of websocket_chat.py do; the calls of one caller follow each
\* other
Next ==
    \E c \in Callers :
        \/ \E user_input \in Texts : Begin(c, user_input)
        \/ \E result \in HandlerResults : HandlerReturns(c, result)
        \/ \E message \in HandlerErrors : HandlerRaises(c, message)
        \/ \E exception \in UncaughtExceptions : HandlerRaisesUncaught(c, exception)

Spec == Init /\ [][Next]_vars

(***************************************************************************)
(* validators.py: is_in_scope called on its own, as test_validators.py     *)
(* does.  The texts combine an opening, a qualifier, an appliance term and *)
(* a closing, so that out-of-scope terms meet model numbers, brands, the   *)
(* word "appliance", part keywords and in-scope appliance keywords.        *)
(***************************************************************************)
ScopeOpenings == {"Fix my ", "I need a part for my ", "Need part for "}

ScopeQualifiers == {"", "WDT780SAEM1 ", "KMHS120ESS ", "XY12 ", "Whirlpool ",
                    "GE appliance ", "broken door ", "fridge "}

ScopeTerms == {"oven", "microwave", "washing machine", "range", "stove", "toaster",
               "oven?", "dishwasher", "thing"}

ScopeClosings == {"", " heating element", " with appliance", " rack", " door"}

ScopeTexts ==
    {o \o q \o t \o c : o \in ScopeOpenings, q \in ScopeQualifiers,
                        t \in ScopeTerms, c \in ScopeClosings}
    \cup {"I need a part"}

InitScope ==
    /\ manager = NoConnections
    /\ cart_store = << >>
    /\ conversation_context = InitialContext
    /\ intent_classification_tool = FALSE
    /\ inflight = [c \in Callers |-> Idle]
    /\ last = NoTurn
    /\ probe \in {[text |-> t, checked |-> FALSE, in_scope |-> FALSE] : t \in ScopeTexts}

\* is_in_scope(probe.text) is called and its verdict kept
CheckScope ==
    /\ ~probe.checked
    /\ probe' = [probe EXCEPT !.checked = TRUE, !.in_scope = is_in_scope(probe.text)]
    /\ UNCHANGED <<conversation_context, intent_classification_tool, inflight, last,
                   manager, cart_store>>

NextScope == CheckScope

SpecScope == InitScope /\ [][NextScope]_vars

(***************************************************************************)
(* Properties                                                              *)
(***************************************************************************)
\* C1 (as stated): every completed call of process_query, whatever the
\* text, the context, the classifier outcome and what the awaited handler
\* did, ended by returning a dict with tool_name, result and follow_up; no
\* call ended with an exception.
C1_AlwaysReturnsDispatchResult ==
    last # NoTurn =>
        /\ last.outcome = "returned"
        /\ last.tool_name # None
        /\ last.tool_name \in Range(intent_tool_map) \cup {"out_of_scope", "unknown_intent", "error"}
        /\ last.result # None

\* C1 (amended): a completed call whose handler was not called, returned, or
\* raised an Exception ended by returning a dict with tool_name, result and
\* follow_up; a call whose awaited handler raised what is no Exception (the
\* cancellation of the task) ended with that exception and returned no dict.
C1_ReturnsDispatchResultUnlessUncaught ==
    last # NoTurn =>
        IF last.handler_outcome \in {"none", "returned", "raised"}
        THEN /\ last.outcome = "returned"
             /\ last.tool_name # None
             /\ last.tool_name \in Range(intent_tool_map)
                                      \cup {"out_of_scope", "unknown_intent", "error"}
             /\ last.result # None
        ELSE /\ last.handler_outcome = "uncaught"
             /\ last.handler_value \in UncaughtExceptions
             /\ last.outcome = "raised"
             /\ ReplyOf(last) = Raised(last.handler_value)
             /\ last.tool_name = None /\ last.result = None /\ last.follow_up = None

\* a call whose handler raised, made with stored context, has returned
C1_Witness ==
    /\ last.handler_outcome = "raised"
    /\ last.outcome = "returned"
    /\ conversation_context.last_part_name # None

\* C2: a turn changes last_part_number, last_part_name, last_model_number or
\* last_appliance_type only to the value of the corresponding slot of the
\* turn's extracted parameters, and only when that slot is present; a field
\* that holds a value is never emptied.
C2_FieldChangesOnlyFromSlot ==
    [][LET slot == [last_part_number |-> "part_number", last_part_name |-> "part_name",
                    last_model_number |-> "model_number",
                    last_appliance_type |-> "appliance_type"]
       IN  \A f \in DOMAIN slot :
              /\ conversation_context'[f] # conversation_context[f] =>
                    /\ slot[f] \in DOMAIN last'.params
                    /\ conversation_context'[f] = last'.params[slot[f]]
              /\ Truthy(conversation_context[f]) => Truthy(conversation_context'[f])]_vars

\* a turn that extracted a model number and no part name has completed: the
\* model number is stored and the part name of an earlier turn is kept
C2_Witness ==
    /\ last.route = "classified"
    /\ "model_number" \in DOMAIN last.params
    /\ "part_name" \notin DOMAIN last.params
    /\ conversation_context.last_model_number = last.params["model_number"]
    /\ conversation_context.last_part_name = "water filter"

\* C3 (as stated): after every turn that dispatched an intent to a handler,
\* whether the intent came from the classifier or from context resolution,
\* last_intent is the dispatched intent and the slots extracted for the turn
\* are stored in the corresponding context fields.
C3_ContextUpdatedAfterEveryDispatch ==
    LET slot == [last_part_number |-> "part_number", last_part_name |-> "part_name",
                 last_model_number |-> "model_number",
                 last_appliance_type |-> "appliance_type"]
    IN  last.handler_calls = 1 =>
            /\ conversation_context.last_intent = last.intent
            /\ \A f \in DOMAIN slot :
                  slot[f] \in DOMAIN last.params =>
                      conversation_context[f] = last.params[slot[f]]

\* C4 (as stated): on a fresh agent the turn "I need a water filter for my
\* refrigerator" is classified lookup and leaves last_intent = lookup,
\* last_part_name = "water filter" and last_appliance_type = "refrigerator".
C4_LookupStoresApplianceType ==
    [][(/\ conversation_context = InitialContext
        /\ last' # last
        /\ last'.outcome = "returned"
        /\ last'.user_input = "I need a water filter for my refrigerator")
       => /\ last'.intent = "lookup"
          /\ conversation_context'.last_intent = "lookup"
          /\ conversation_context'.last_part_name = "water filter"
          /\ conversation_context'.last_appliance_type = "refrigerator"]_vars

\* C4 (amended): on a fresh agent the turn "I need a water filter for my
\* refrigerator" is classified lookup and leaves last_intent = lookup,
\* last_part_name = "water filter" and last_part_number = "W10295370A";
\* the lookup extraction has no appliance slot, so last_appliance_type (and
\* last_model_number) stay unset.
C4_LookupStoresPartOnly ==
    [][(/\ conversation_context = InitialContext
        /\ last' # last
        /\ last'.outcome = "returned"
        /\ last'.user_input = "I need a water filter for my refrigerator")
       => /\ last'.intent = "lookup"
          /\ last'.route = "classified"
          /\ conversation_context'.last_intent = "lookup"
          /\ conversation_context'.last_part_name = "water filter"
          /\ conversation_context'.last_part_number = "W10295370A"
          /\ conversation_context'.last_appliance_type = None
          /\ conversation_context'.last_model_number = None]_vars

\* the first turn of an agent was the spec's lookup and has completed
C4_Witness ==
    /\ last.user_input = "I need a water filter for my refrigerator"
    /\ last.tool_name = "product_lookup_tool"
    /\ conversation_context = [last_intent |-> "lookup", last_part_number |-> "W10295370A",
                               last_part_name |-> "water filter", last_model_number |-> None,
                               last_appliance_type |-> None]

\* C5: when the context holds last_intent = lookup and a part name, the turn
\* "How do I install it?" is resolved from context to install without the
\* scope filter, the classifier or the LLM; the rewritten text names the
\* stored part and the appliance (refrigerator when none is stored) and the
\* install handler is called once with "<part>:<appliance>", which is
\* "water filter:refrigerator" in the spec's case.
C5_InstallFollowUpResolvedFromContext ==
    [][\A c \in Callers :
          LET q == "How do I install it?"
              ctx == conversation_context
              call == inflight'[c]
              appliance == OrElse(ctx.last_appliance_type, "refrigerator")
              began == \/ inflight[c] = Idle /\ call # Idle /\ call.user_input = q
                       \/ /\ inflight' = inflight /\ last' # last
                          /\ last'.caller = c /\ last'.user_input = q
          IN  (began /\ ctx.last_intent = "lookup" /\ Truthy(ctx.last_part_name))
              => /\ inflight[c] = Idle /\ call # Idle /\ call.user_input = q
                 /\ call.route = "context"
                 /\ call.intent = "install"
                 /\ call.llm_calls = 0
                 /\ Contains(call.tool_input, ctx.last_part_name)
                 /\ Contains(call.tool_input, appliance)
                 /\ call.handler_calls = 1
                 /\ call.sub_query = ctx.last_part_name \o ":" \o appliance
                 /\ (/\ ctx.last_part_name = "water filter"
                     /\ ctx.last_appliance_type \in {None, "refrigerator"})
                    => call.sub_query = "water filter:refrigerator"]_vars

\* the follow-up is waiting in the install handler after the spec's lookup
C5_Witness ==
    \E c \in Callers :
        /\ inflight[c].user_input = "How do I install it?"
        /\ inflight[c].route = "context"
        /\ inflight[c].sub_query = "water filter:refrigerator"
        /\ last.user_input = "I need a water filter for my refrigerator"
        /\ conversation_context.last_appliance_type = None

\* C6 (as stated): whenever last_part_number is set and a context-dependent
\* query contains "cart", "add" or "basket" and no install, compatibility or
\* where/find/get language, it is resolved to cart whatever last_intent is,
\* rewritten to "Add part <number> to my cart" when "add" is present and to
\* "View my cart" otherwise; "Add to cart" reaches the cart handler with
\* "add:<number>:1".
C6_CartFollowUpWhateverLastIntent ==
    [][\A c \in Callers : \A q \in Texts :
          LET ctx == conversation_context
              call == inflight'[c]
              has(p) == Contains(Analysis(q).query_lower, p)
              began == \/ inflight[c] = Idle /\ call # Idle /\ call.user_input = q
                       \/ /\ inflight' = inflight /\ last' # last
                          /\ last'.caller = c /\ last'.user_input = q
          IN  (/\ began
               /\ Truthy(ctx.last_part_number)
               /\ is_context_dependent_query(q, ctx)
               /\ has("cart") \/ has("add") \/ has("basket")
               /\ ~((has("how") /\ has("install")) \/ has("installation"))
               /\ ~(has("compatible") \/ has("work with"))
               /\ ~(has("where") \/ has("find") \/ has("get")))
              => /\ inflight[c] = Idle /\ call # Idle /\ call.user_input = q
                 /\ call.route = "context"
                 /\ call.intent = "cart"
                 /\ call.tool_input = IF has("add")
                                      THEN "Add part " \o ctx.last_part_number \o " to my cart"
                                      ELSE "View my cart"
                 /\ q = "Add to cart" =>
                       call.sub_query = "add:" \o ctx.last_part_number \o ":1"]_vars

\* C7: a turn that is not resolved from context and whose text is_in_scope
\* rejects returns tool_name "out_of_scope" with no follow-up, calls neither
\* a handler nor the LLM classifier, and leaves the context as it was.
C7_ScopeRejectionLeavesContext ==
    [][\A c \in Callers : \A q \in Texts :
          LET ctx == conversation_context
              call == inflight'[c]
              began == \/ inflight[c] = Idle /\ call # Idle /\ call.user_input = q
                       \/ /\ inflight' = inflight /\ last' # last
                          /\ last'.caller = c /\ last'.user_input = q
          IN  (/\ began
               /\ ResolveFromContext(q, ctx) = NoEnhancement
               /\ ~Analysis(q).in_scope)
              => /\ inflight' = inflight
                 /\ last'.user_input = q
                 /\ last'.outcome = "returned"
                 /\ last'.tool_name = "out_of_scope"
                 /\ last'.follow_up = None
                 /\ last'.handler_calls = 0
                 /\ last'.llm_calls = 0
                 /\ conversation_context' = conversation_context]_vars

\* an out-of-scope text was rejected while the context held an earlier turn
C7_Witness ==
    /\ last.user_input = "My microwave is broken"
    /\ last.tool_name = "out_of_scope"
    /\ last.route = "scope"
    /\ conversation_context.last_part_name = "water filter"
    /\ intent_classification_tool

\* C8 (as stated): every text that holds an out-of-scope term as a whole
\* word and no refrigerator/dishwasher appliance keyword is rejected by
\* is_in_scope, whatever else it holds.
C8_OutOfScopeTermRejects ==
    (/\ probe.checked
     /\ HasOutOfScopeTerm(lower(probe.text))
     /\ ~HasInScopeAppliance(lower(probe.text)))
    => ~probe.in_scope

\* C8 (amended): every text that holds an out-of-scope term as a whole word,
\* no refrigerator/dishwasher appliance keyword, no model number the filter
\* accepts (a match of a model pattern that starts with a known prefix or has
\* eight or more characters) and not the word "appliance" together with a
\* brand name is rejected by is_in_scope, whatever else it holds (other
\* model-number-like tokens, brand names, part keywords).
C8_OutOfScopeTermRejectsUnlessForcedInScope ==
    LET text_lower == lower(probe.text)
    IN  (/\ probe.checked
         /\ HasOutOfScopeTerm(text_lower)
         /\ ~HasInScopeAppliance(text_lower)
         /\ ~HasAcceptedModelNumber(probe.text)
         /\ ~(Contains(text_lower, "appliance") /\ ContainsAny(text_lower, APPLIANCE_BRANDS)))
        => ~probe.in_scope

\* a rejected text with an out-of-scope term that also holds a model-like
\* token, a brand name and a part keyword
C8_Witness ==
    /\ probe.checked
    /\ ~probe.in_scope
    /\ HasOutOfScopeTerm(lower(probe.text))
    /\ ~HasInScopeAppliance(lower(probe.text))
    /\ MODEL_PATTERNS(probe.text) # {}
    /\ ContainsAny(lower(probe.text), APPLIANCE_BRANDS)
    /\ ContainsAny(lower(probe.text), PART_KEYWORDS)

\* C9: when the handler of a turn raises, the call returns tool_name "error",
\* a result that embeds the exception's message and the fixed retry
\* follow-up; the handler was called once for the turn, and no call ever
\* calls its handler more than once.
C9_HandlerErrorIsReported ==
    /\ last.handler_outcome = "raised" =>
          /\ last.outcome = "returned"
          /\ last.tool_name = "error"
          /\ last.result = "I encountered an error while processing your request: "
                              \o last.handler_value
          /\ Contains(last.result, last.handler_value)
          /\ last.follow_up = "Could you try rephrasing your question?"
          /\ last.handler_calls = 1
    /\ last.handler_calls <= 1
    /\ \A c \in Callers : inflight[c].handler_calls <= 1

\* a handler raised "timed out" and the reply carries that message
C9_Witness ==
    /\ last.handler_outcome = "raised"
    /\ last.handler_value = "timed out"
    /\ last.tool_name = "error"
    /\ Contains(last.result, "timed out")

\* C10: a turn whose intent has no entry in the intent-to-handler table
\* returns tool_name "unknown_intent" with no follow-up and calls no handler;
\* status, which the rule-based classifier produces, is such an intent.
C10_UnroutableIntent ==
    /\ "status" \notin DOMAIN intent_tool_map
    /\ (/\ last.route \in {"context", "classified"}
        /\ last.intent = "status" \/ last.intent \notin DOMAIN intent_tool_map)
       => /\ last.outcome = "returned"
          /\ last.tool_name = "unknown_intent"
          /\ last.follow_up = None
          /\ last.handler_calls = 0
          /\ last.handler_outcome = "none"
    /\ \A c \in Callers :
          inflight[c] # Idle => inflight[c].intent \in DOMAIN intent_tool_map \ {"status"}

\* "Track my dishwasher part order" was classified status and answered
C10_Witness ==
    /\ last.user_input = "Track my dishwasher part order"
    /\ last.intent = "status"
    /\ last.tool_name = "unknown_intent"
    /\ last.handler_calls = 0

(***************************************************************************)
(* intent_utils.py: classify_intent called on its own.  The texts combine  *)
(* a subject, a complaint and a closing, so that in-scope and out-of-scope *)
(* subjects meet the phrase table, the purchase verbs and the cart and     *)
(* order words.                                                            *)
(***************************************************************************)
IntentSubjects == {"My dishwasher pump ", "My microwave ", "The ice maker in my Whirlpool "}

IntentComplaints == {"is not working", "isn't working", "stopped working",
                     "is broken and not working", "is too loud", "needs a part"}

IntentClosings == {"", ", can I buy a new one", ", I want to purchase one",
                   " and I need to buy parts", ", add one to my cart", ", track my order",
                   ", add one to my cart and track it",
                   ", is that right, please help", ", please repair it and help"}

IntentTexts ==
    {s \o c \o e : s \in IntentSubjects, c \in IntentComplaints, e \in IntentClosings}

\* the deepseek_api_key argument and the DEEPSEEK_API_KEY environment variable
ArgKeys == {None, "sk-arg"}
EnvKeys == {None, "", "sk-env"}

\* line 38 does not ask for any label
ConsultsLLMFallback_AnyLabel(rule_based_intent, use_llm_fallback, key) ==
    use_llm_fallback /\ Truthy(key)

\* lines 38-50: the LLM tool is created and run
ConsultsLLMFallback(rule_based_intent, use_llm_fallback, key) ==
    rule_based_intent = "out_of_scope" /\ use_llm_fallback /\ Truthy(key)

\* lines 52-64, llm being what llm_tool._run does when it is run
LLMFallback(rule_based_intent, asked, llm) ==
    IF asked /\ llm # LLMRaises THEN llm ELSE rule_based_intent

\* lines 35-64, given the rule-based label and the key in force (lines 45-46)
ClassifiedIntent(rule_based_intent, use_llm_fallback, key, llm) ==
    LLMFallback(rule_based_intent,
                ConsultsLLMFallback(rule_based_intent, use_llm_fallback, key), llm)

classify_intent(query, use_llm_fallback, deepseek_api_key, env_key, llm) ==
    ClassifiedIntent(extract_intent(query), use_llm_fallback,
                     OrElse(deepseek_api_key, env_key), llm)

InitIntent ==
    /\ manager = NoConnections
    /\ cart_store = << >>
    /\ conversation_context = InitialContext
    /\ intent_classification_tool = FALSE
    /\ inflight = [c \in Callers |-> Idle]
    /\ last = NoTurn
    /\ probe \in {[text |-> t, use_llm_fallback |-> u, deepseek_api_key |-> k, env_key |-> e,
                   checked |-> FALSE, rule_based_intent |-> None, llm_calls |-> 0,
                   llm |-> None, intent |-> None] :
                  t \in IntentTexts, u \in BOOLEAN, k \in ArgKeys, e \in EnvKeys}

\* the outcome of classify_intent on the probe when its rule-based label is rule
ClassifiedProbe(rule, key, llm) ==
    [probe EXCEPT !.checked = TRUE,
                  !.rule_based_intent = rule,
                  !.llm_calls = IF ConsultsLLMFallback(rule, probe.use_llm_fallback, key)
                                THEN 1 ELSE 0,
                  !.llm = IF ConsultsLLMFallback(rule, probe.use_llm_fallback, key)
                          THEN llm ELSE None,
                  !.intent = ClassifiedIntent(rule, probe.use_llm_fallback, key, llm)]

\* classify_intent(probe.text, ...) is called; the LLM, when run, answers or raises
ClassifyIntent ==
    /\ ~probe.checked
    /\ \E llm \in LLMOutcomes :
          probe' = ClassifiedProbe(extract_intent(probe.text),
                                   OrElse(probe.deepseek_api_key, probe.env_key), llm)
    /\ UNCHANGED <<conversation_context, intent_classification_tool, inflight, last,
                   manager, cart_store>>

NextIntent == ClassifyIntent

SpecIntent == InitIntent /\ [][NextIntent]_vars

\* lines 180-196 for a call that took decision d before the LLM could be asked:
\* whatever the configuration and the LLM's outcome, the LLM is asked at most
\* once, only for out_of_scope and only when configured, and a raising or
\* missing LLM leaves out_of_scope, answered with the fallback reply
AsksLLMOnlyForOutOfScope(d) ==
    \A llm_configured \in BOOLEAN : \A llm \in LLMOutcomes :
        /\ AfterLLM(d, llm_configured, llm).llm_calls \in {0, 1}
        /\ AfterLLM(d, llm_configured, llm).llm_calls = 1 =>
              d.route = "rules" /\ d.intent = "out_of_scope" /\ llm_configured
        /\ (d.route = "rules" /\ d.intent # "out_of_scope") =>
              /\ AfterLLM(d, llm_configured, llm).llm_calls = 0
              /\ AfterLLM(d, llm_configured, llm).intent = d.intent
        /\ (/\ d.route = "rules" /\ d.intent = "out_of_scope"
            /\ ~llm_configured \/ llm = LLMRaises) =>
              /\ AfterLLM(d, llm_configured, llm).route = "fallback"
              /\ AfterLLM(d, llm_configured, llm).intent = "out_of_scope"

\* C11: classify_intent runs the LLM classifier only when the rule-based
\* label is out_of_scope, the fallback is enabled and an API key is
\* available, and then once; any other rule-based label is returned without
\* an LLM call; when the LLM raises, or no key is available, the call
\* returns out_of_scope.  process_query, for the same text on a fresh agent,
\* asks the LLM at most once, only for the label out_of_scope and only when
\* the tool is configured, and answers with the fallback reply when the
\* LLM raises or is not configured.
C11_LLMOnlyForOutOfScope ==
    probe.checked =>
        /\ probe.llm_calls \in {0, 1}
        /\ probe.llm_calls = 1 =>
              /\ probe.rule_based_intent = "out_of_scope"
              /\ probe.use_llm_fallback
              /\ Truthy(probe.deepseek_api_key) \/ Truthy(probe.env_key)
        /\ probe.rule_based_intent # "out_of_scope" =>
              /\ probe.llm_calls = 0
              /\ probe.intent = probe.rule_based_intent
        /\ (probe.llm_calls = 0 \/ probe.llm = LLMRaises) =>
              probe.intent = probe.rule_based_intent
        /\ probe.intent \in Intents
        /\ AsksLLMOnlyForOutOfScope(Decide(probe.text, InitialContext))

\* the fallback was enabled with the key of the environment, the LLM was run
\* once and raised, and the call returned out_of_scope
C11_Witness ==
    /\ probe.checked
    /\ probe.deepseek_api_key = None
    /\ probe.env_key = "sk-env"
    /\ probe.llm_calls = 1
    /\ probe.llm = LLMRaises
    /\ probe.intent = "out_of_scope"

\* C12: the agent starts with the five context fields empty; while
\* last_intent is unset the context is still the initial one and
\* enhance_query_with_context returns (None, None) for every query, so a
\* call that begins then is not resolved from context: it is rejected by
\* the scope filter or dispatched with the classifier's label and the raw text.
C12_FreshAgentNeverRewrites ==
    /\ conversation_context = [f \in ContextFields |-> None]
    /\ [][~Truthy(conversation_context.last_intent) =>
             /\ conversation_context = [f \in ContextFields |-> None]
             /\ \A q \in Texts :
                   enhance_query_with_context(q, conversation_context) = NoEnhancement
             /\ \A c \in Callers : \A q \in Texts :
                   LET call == inflight'[c]
                   IN  /\ (inflight[c] = Idle /\ call # Idle /\ call.user_input = q) =>
                             /\ call.route = "classified"
                             /\ call.tool_input = q
                             /\ call.intent = Analysis(q).intent
                       /\ (inflight' = inflight /\ last' # last /\ last'.caller = c
                           /\ last'.user_input = q) =>
                             /\ last'.route \in {"scope", "classified"}
                             /\ last'.route = "scope" <=> ~Analysis(q).in_scope
                             /\ last'.route = "classified" =>
                                   last'.intent = Analysis(q).intent]_vars

\* a fresh agent was asked the follow-up "How do I install it?", which is
\* context-dependent, and decided it by the scope filter on the raw text
C12_Witness ==
    /\ last.user_input = "How do I install it?"
    /\ is_context_dependent_query(last.user_input, InitialContext)
    /\ last.route = "scope"
    /\ last.handler_calls = 0
    /\ conversation_context = InitialContext

(***************************************************************************)
(* part_agent.py: process_query as a function of the context, the text and *)
(* what the handler does when it is called                                 *)
(***************************************************************************)
\* the call that process_query(user_input) makes from context ctx on an
\* agent without LLM classifier
CallOf(ctx, user_input) ==
    NewCall(user_input, AfterLLM(Decide(user_input, ctx), FALSE, LLMRaises))

\* whether the call returns before any handler is awaited
ReturnsAtOnce(call) ==
    call.route \in {"scope", "fallback"} \/ call.intent \notin DOMAIN intent_tool_map

\* the call as it awaits its handler, when it does
SuspendedOf(call) ==
    IF ReturnsAtOnce(call) THEN call
    ELSE Awaiting(call, Parameters(call.intent, call.tool_input))

\* the dict returned by the call, or the exception it raised, and the context
\* it leaves, process_query running in a frame at recursion depth depth
ReturnOf(ctx, call, handler_outcome, handler_value, depth) ==
    IF call.route = "scope" THEN <<ScopeRejection, ctx>>
    ELSE IF call.route = "fallback" THEN <<FallbackRejection, ctx>>
    ELSE IF call.intent \notin DOMAIN intent_tool_map
    THEN <<UnknownIntentResult, ContextAfterTurn(ctx, call)>>
    ELSE IF handler_outcome = "returned"
    THEN <<ToolSuccess(call.intent, call.params, handler_value, depth + 1),
           ContextAfterTurn(ctx, call)>>
    ELSE IF handler_outcome = "raised"
    THEN <<ToolError(handler_value), ContextAfterTurn(ctx, call)>>
    ELSE <<Raised(handler_value), ctx>>

(***************************************************************************)
(* part_agent.py: two calls of process_query on one fresh agent that may   *)
(* overlap, as two websocket connections make them: a call that awaits its *)
(* handler yields to the event loop, and the other call may begin and end  *)
(* meanwhile.  The callers run their calls at their own recursion depths.  *)
(* probe keeps the order of the begins and ends, the reply each caller     *)
(* got, the context its call started from and the context its call left.   *)
(***************************************************************************)
OverlapTexts == {"I need a water filter for my refrigerator",
                 "Install the water filter",
                 "How do I install it?",
                 "My dishwasher is leaking"}

InitOverlap ==
    /\ manager = NoConnections
    /\ cart_store = << >>
    /\ conversation_context = InitialContext
    /\ intent_classification_tool = FALSE
    /\ inflight = [c \in Callers |-> Idle]
    /\ last = NoTurn
    /\ probe = [order |-> << >>, done |-> [c \in Callers |-> NoTurn],
                started |-> [c \in Callers |-> InitialContext],
                left |-> [c \in Callers |-> InitialContext]]

\* probe after caller c began a call that left the in-flight calls as now and
\* the last reply as reply
BeganIn(c, now, reply) ==
    IF now[c] = Idle
    THEN [order |-> probe.order \o << <<"begin", c>>, <<"end", c>> >>,
          done |-> [probe.done EXCEPT ![c] = reply],
          started |-> [probe.started EXCEPT ![c] = conversation_context],
          left |-> [probe.left EXCEPT ![c] = conversation_context']]
    ELSE [probe EXCEPT !.order = probe.order \o << <<"begin", c>> >>,
                       !.started[c] = conversation_context]

\* process_query(user_input) is called by c, whatever the other caller is doing
OverlapBegin(c, user_input) ==
    /\ inflight[c] = Idle
    /\ \A i \in DOMAIN probe.order : probe.order[i] # <<"begin", c>>
    /\ Classify(c, user_input, Decide(user_input, conversation_context))
    /\ probe' = BeganIn(c, inflight', last')
    /\ UNCHANGED <<intent_classification_tool, manager, cart_store>>

\* the awaited handler of c's call ends and the call runs to its return, or
\* the exception of the handler leaves the call
OverlapEnd(c, handler_outcome, handler_value, d) ==
    /\ inflight[c] # Idle
    /\ last' = Completed(c, inflight[c], handler_outcome, handler_value, d)
    /\ conversation_context' = IF ReturnsDict(d)
                               THEN ContextAfterTurn(conversation_context, inflight[c])
                               ELSE conversation_context
    /\ inflight' = [inflight EXCEPT ![c] = Idle]
    /\ probe' = [probe EXCEPT !.order = probe.order \o << <<"end", c>> >>,
                              !.done[c] = last',
                              !.left[c] = conversation_context']
    /\ UNCHANGED <<intent_classification_tool, manager, cart_store>>

OverlapReturns(c, result) ==
    /\ inflight[c] # Idle
    /\ OverlapEnd(c, "returned", result,
                  ToolSuccess(inflight[c].intent, inflight[c].params, result,
                              CallerDepth[c] + 1))

OverlapRaises(c, message) ==
    /\ inflight[c] # Idle
    /\ OverlapEnd(c, "raised", message, ToolError(message))

OverlapRaisesUncaught(c, exception) ==
    /\ inflight[c] # Idle
    /\ OverlapEnd(c, "uncaught", exception, Raised(exception))

NextOverlap ==
    \E c \in Callers :
        \/ \E user_input \in OverlapTexts : OverlapBegin(c, user_input)
        \/ \E result \in OverlapResults : OverlapReturns(c, result)
        \/ \E message \in HandlerErrors : OverlapRaises(c, message)
        \/ \E exception \in UncaughtExceptions : OverlapRaisesUncaught(c, exception)

SpecOverlap == InitOverlap /\ [][NextOverlap]_vars

\* process_query(user_input) run alone from context ctx in a frame at
\* recursion depth depth: the dict returned and the context left
RunOf(ctx, user_input, handler_outcome, handler_value, depth) ==
    ReturnOf(ctx, SuspendedOf(CallOf(ctx, user_input)), handler_outcome, handler_value,
             depth)

\* the second of two calls made one after the other, the first having
\* returned first_run
ThenRunOf(first_run, user_input, handler_outcome, handler_value, depth) ==
    <<first_run[1], RunOf(first_run[2], user_input, handler_outcome, handler_value, depth)>>

\* the replies to x and to y and the context left when the completed calls x
\* and y are made one after the other on a fresh agent, x first
SerialOutcome(x, y) ==
    ThenRunOf(RunOf(InitialContext, x.user_input, x.handler_outcome, x.handler_value,
                    CallerDepth[x.caller]),
              y.user_input, y.handler_outcome, y.handler_value, CallerDepth[y.caller])

\* C13 (as stated): two runs of process_query that start from equal
\* contexts with the same text and whose handlers respond the same return
\* equal DispatchResults (or end with the same exception) and leave equal
\* contexts, and the label given to the text is the same in both.
C13_Deterministic ==
    \A c \in Callers : \A o \in Callers :
        (/\ probe.done[c] # NoTurn
         /\ probe.done[o] # NoTurn
         /\ probe.started[c] = probe.started[o]
         /\ probe.done[c].user_input = probe.done[o].user_input
         /\ probe.done[c].handler_outcome = probe.done[o].handler_outcome
         /\ probe.done[c].handler_value = probe.done[o].handler_value)
        => /\ probe.done[c].intent = probe.done[o].intent
           /\ probe.done[c].sub_query = probe.done[o].sub_query
           /\ probe.left[c] = probe.left[o]
           /\ ReplyOf(probe.done[c]) = ReplyOf(probe.done[o])

\* C14: a call reads the context when it begins and writes it when it ends,
\* and nothing keeps the other caller from beginning or ending in between.
\* A call that begins and awaits its handler is the call its text makes from
\* the context as it is then, and leaves the context alone; a call that
\* returns writes onto the context as it is then, a classified call leaving
\* its own label in last_intent, and a call that an uncaught exception ends
\* writes nothing; two calls that do not overlap give the replies and
\* the context of the serial execution in their order.
C14_ReadsBeforeAwaitWritesAfter ==
    [][\A c \in Callers :
          LET other == CHOOSE o \in Callers : o # c
          IN  /\ (inflight[c] = Idle /\ inflight'[c] # Idle) =>
                    /\ inflight'[c] = SuspendedOf(CallOf(conversation_context,
                                                         inflight'[c].user_input))
                    /\ conversation_context' = conversation_context
              /\ (inflight[c] # Idle /\ inflight'[c] = Idle /\ last'.outcome = "returned") =>
                    /\ conversation_context'
                          = ContextAfterTurn(conversation_context, inflight[c])
                    /\ inflight[c].route = "classified" =>
                          conversation_context'.last_intent = inflight[c].intent
              /\ (inflight[c] # Idle /\ inflight'[c] = Idle /\ last'.outcome = "raised") =>
                    conversation_context' = conversation_context
              /\ probe'.order = << <<"begin", c>>, <<"end", c>>,
                                   <<"begin", other>>, <<"end", other>> >> =>
                    <<ReplyOf(probe'.done[c]), <<ReplyOf(probe'.done[other]),
                                                 conversation_context'>> >>
                       = SerialOutcome(probe'.done[c], probe'.done[other])]_vars

\* A asked for a water filter and B asked to install it while A's handler
\* was running; A's call ended first.  The replies and the context that
\* were left are those of neither serial execution of the two calls: B's
\* late write leaves last_intent = install, where both serial executions
\* leave lookup.
C14_Witness ==
    /\ probe.order = << <<"begin", "A">>, <<"begin", "B">>, <<"end", "A">>, <<"end", "B">> >>
    /\ probe.done["A"].user_input = "I need a water filter for my refrigerator"
    /\ probe.done["B"].user_input = "Install the water filter"
    /\ probe.done["A"].handler_outcome = "returned"
    /\ probe.done["B"].handler_outcome = "returned"
    /\ <<ReplyOf(probe.done["A"]), <<ReplyOf(probe.done["B"]), conversation_context>> >>
          # SerialOutcome(probe.done["A"], probe.done["B"])
    /\ <<ReplyOf(probe.done["B"]), <<ReplyOf(probe.done["A"]), conversation_context>> >>
          # SerialOutcome(probe.done["B"], probe.done["A"])
    /\ conversation_context.last_intent = "install"
    /\ SerialOutcome(probe.done["A"], probe.done["B"])[2][2].last_intent = "lookup"
    /\ SerialOutcome(probe.done["B"], probe.done["A"])[2][2].last_intent = "lookup"


\* C15 (as stated): a compatibility query that holds a part-number token
\* and a separate model-number token is classified compatibility, its
\* parameters hold those two tokens as part_number and model_number, and
\* the handler receives "<part_number>:<model_number>"; for "Will part
\* 67003753 work with my GD5SHAAXNQ00 dishwasher?" these are 67003753 and
\* GD5SHAAXNQ00.
C15_CompatibilityExtractsBothTokens ==
    \A case \in {[text |-> "Will part 67003753 work with my GD5SHAAXNQ00 dishwasher?",
                  part |-> "67003753", model |-> "GD5SHAAXNQ00"],
                 [text |-> "Is W10295370A compatible with my Whirlpool WRS325FDAM04?",
                  part |-> "W10295370A", model |-> "WRS325FDAM04"]} :
        (last.user_input = case.text /\ last.route = "classified") =>
            /\ last.intent = "compatibility"
            /\ last.handler_calls = 1
            /\ "part_number" \in DOMAIN last.params
            /\ "model_number" \in DOMAIN last.params
            /\ last.params["part_number"] = case.part
            /\ last.params["model_number"] = case.model
            /\ last.sub_query = case.part \o ":" \o case.model


\* C16 (as stated): the turn "add 3 units of W10295370A to my cart" is
\* handled as intent cart with action = "add", part_number = "W10295370A"
\* and quantity = "3", and the cart handler receives "add:W10295370A:3".
C16_AddToCartWithQuantity ==
    last.user_input = "add 3 units of W10295370A to my cart" =>
        /\ last.intent = "cart"
        /\ last.handler_calls = 1
        /\ last.params = [action |-> "add", part_number |-> "W10295370A", quantity |-> "3"]
        /\ last.sub_query = "add:W10295370A:3"
        /\ last.tool_name \in {"cart_tool", "error"}


\* lines 167-178: the texts whose lowercased form holds a problem indicator
IndicatorTexts == {q \in Texts : ContainsAny(lower(q), ProblemIndicators)}

\* C17: a turn that is not resolved from context, passes the scope check
\* and whose lowercased text holds a problem indicator is dispatched to the
\* diagnose handler, whatever label extract_intent gives the text; a text
\* that fails the scope check is rejected as out_of_scope even when it
\* holds a problem indicator.
C17_DiagnoseOverride ==
    [][\A c \in Callers : \A q \in IndicatorTexts :
          LET call == inflight'[c]
              began == \/ inflight[c] = Idle /\ call # Idle /\ call.user_input = q
                       \/ /\ inflight' = inflight /\ last' # last
                          /\ last'.caller = c /\ last'.user_input = q
          IN  (/\ began
               /\ ResolveFromContext(q, conversation_context) = NoEnhancement)
              => IF Analysis(q).in_scope
                 THEN /\ inflight[c] = Idle /\ call # Idle /\ call.user_input = q
                      /\ call.route = "classified"
                      /\ call.intent = "diagnose"
                      /\ call.handler_calls = 1
                      /\ intent_tool_map[call.intent] = "error_diagnosis_tool"
                 ELSE /\ inflight' = inflight
                      /\ last'.tool_name = "out_of_scope"
                      /\ last'.handler_calls = 0]_vars

\* a text that extract_intent labels order waits in the diagnose handler
\* because it holds "broken", while a text that holds "broken" and fails the
\* scope check was rejected as out_of_scope without a handler call
C17_Witness ==
    /\ inflight["A"].user_input = "I want to buy a dishwasher pump, mine is broken"
    /\ extract_intent(inflight["A"].user_input) = "order"
    /\ inflight["A"].route = "classified"
    /\ inflight["A"].intent = "diagnose"
    /\ inflight["A"].handler_calls = 1
    /\ last.caller = "B"
    /\ last.user_input = "My microwave is broken"
    /\ ContainsAny(lower(last.user_input), ProblemIndicators)
    /\ ~is_in_scope(last.user_input)
    /\ last.tool_name = "out_of_scope"
    /\ last.handler_calls = 0


\* C18: is_context_dependent(query) is true exactly when the query has at
\* most 5 tokens and holds a bare pronoun or starts with a follow-up phrase,
\* or holds "cart", "add" or "basket" while last_part_number is set, or
\* holds "order", "status" or "track"; so every query holding "order",
\* "status" or "track" is context-dependent whatever its length and context.
C18_ContextDependentExactly ==
    \A q \in Texts :
        LET a == Analysis(q)
            has(p) == Contains(a.query_lower, p)
        IN  is_context_dependent_query(q, conversation_context)
            <=> \/ /\ Len(a.tokens) <= 5
                   /\ \/ Range(a.tokens) \cap Pronouns # {}
                      \/ \E pattern \in FollowUpPatterns : startswith(a.query_lower, pattern)
                \/ /\ has("cart") \/ has("add") \/ has("basket")
                   /\ Truthy(conversation_context["last_part_number"])
                \/ has("order") \/ has("status") \/ has("track")


\* C19: with last_intent set, enhance_with_context returns the outcome of
\* the first rule, in the order install follow-up, compatibility follow-up,
\* where/find/get lookup follow-up, generic install after lookup or
\* compatibility, cart follow-up, order/status/track follow-up, whose text
\* condition and context condition both hold, and (None, None) only when
\* none of the six applies; a rule whose text matches while its context
\* field is unset does not stop a later applicable rule.
C19_FirstApplicableRuleWins ==
    \A q \in Texts :
        LET ctx == conversation_context
            ql == Analysis(q).query_lower
            has(p) == Contains(ql, p)
            appliance == OrElse(ctx["last_appliance_type"], "refrigerator")
        IN  Truthy(ctx["last_intent"]) =>
            enhance_query_with_context(q, ctx) =
               IF ((has("how") /\ has("install")) \/ has("installation"))
                  /\ Truthy(ctx["last_part_name"])
               THEN <<"install", InstallRewrite(ctx["last_part_name"], appliance)>>
               ELSE IF (has("compatible") \/ has("work with"))
                       /\ Truthy(ctx["last_part_number"]) /\ Truthy(ctx["last_model_number"])
               THEN <<"compatibility", "Is part " \o ctx["last_part_number"]
                                         \o " compatible with " \o ctx["last_model_number"] \o "?">>
               ELSE IF (has("where") \/ has("find") \/ has("get"))
                       /\ Truthy(ctx["last_part_name"])
               THEN <<"lookup", "I need a " \o ctx["last_part_name"] \o " for my " \o appliance>>
               ELSE IF (has("install") \/ has("how"))
                       /\ ctx["last_intent"] \in {"lookup", "compatibility"}
               THEN <<"install", InstallRewrite(OrElse(ctx["last_part_name"], "part"), appliance)>>
               ELSE IF (has("cart") \/ has("add") \/ has("basket"))
                       /\ Truthy(ctx["last_part_number"])
               THEN IF has("add")
                    THEN <<"cart", "Add part " \o ctx["last_part_number"] \o " to my cart">>
                    ELSE <<"cart", "View my cart">>
               ELSE IF has("order") \/ has("status") \/ has("track")
               THEN <<"order", "Check my order status">>
               ELSE NoEnhancement


\* C20: when the text holds a diagnose phrase of the not-working family
\* ("isn't working", "not working", "stopped working") together with "buy"
\* or "purchase", the phrase-table stage of extract_intent does not return
\* diagnose for it: the match is skipped and the later stages classify.
C20_NotWorkingWithPurchaseSkipsPhraseTable ==
    probe.checked =>
        LET text_lower == lower(probe.text)
        IN  (/\ ContainsAny(text_lower, {"isn't working", "not working", "stopped working"})
             /\ ContainsAny(text_lower, {"buy", "purchase"}))
            => PhraseMatch(text_lower) # "diagnose"


\* C21: for every in-scope text that matches no phrase-table entry and
\* holds both "add" and "cart", extract_intent returns order, never cart,
\* before any later override rule and before the keyword scoring.
C21_AddWithCartIsOrder ==
    probe.checked =>
        LET text_lower == lower(probe.text)
        IN  (/\ is_in_scope(probe.text)
             /\ PhraseMatch(text_lower) = None
             /\ Contains(text_lower, "add") /\ Contains(text_lower, "cart"))
            => probe.rule_based_intent = "order"

\* a text with "add" and "cart" that the later tracking rule would label
\* status was classified order
C21_Witness ==
    /\ probe.checked
    /\ probe.text = "My dishwasher pump is too loud, add one to my cart and track it"
    /\ PhraseMatch(lower(probe.text)) = None
    /\ probe.rule_based_intent = "order"
    /\ Contains(lower(probe.text), "track")


\* C22: when extract_intent reaches the keyword-scoring stage it returns
\* the intent with the highest total score; among intents with the same
\* highest score the one that comes first in the order lookup,
\* compatibility, install, diagnose, order, status; and lookup when every
\* score is 0.
C22_HighestScoreFirstInOrder ==
    probe.checked =>
        LET t == lower(probe.text)
            has(p) == Contains(t, p)
            order == <<"lookup", "compatibility", "install", "diagnose", "order", "status">>
            tracked == (has("order") /\ has("my")) \/ has("track") \/ has("shipping") \/ has("delivery")
            decided_before ==
                \/ t \in {"is this part compatible and how do i install it?",
                          "i need to find and install a water filter",
                          "my dishwasher isn't working, i need to buy a new pump"}
                \/ ~is_in_scope(probe.text)
                \/ PhraseMatch(t) # None
                \/ has("add") /\ has("cart")
                \/ (has("purchase") \/ has("buy")) /\ ~(has("how") \/ has("where") \/ has("this"))
                \/ has("shipping") /\ has("options")
                \/ tracked /\ (has("where is") \/ has("track") \/ has("when will") \/ has("status"))
                \/ tracked /\ (has("buy") \/ has("purchase") \/ has("order") \/ has("cart"))
                \/ /\ has("not working") \/ has("isn't working") \/ has("stopped working") \/ has("problems")
                   /\ ~(has("need") /\ (has("buy") \/ has("purchase")))
                \/ has("how to fix") \/ has("troubleshoot")
                \/ (has("how do i") \/ has("how to")) /\ (has("install") \/ has("replace") \/ has("fix"))
                \/ has("this part") /\ (has("compatible") \/ has("fit") \/ has("work"))
            scores == intent_scores(t)
            got == probe.rule_based_intent
        IN  ~decided_before =>
               IF \A n \in 1..6 : scores[order[n]] = 0 THEN got = "lookup"
               ELSE \E n \in 1..6 :
                       /\ got = order[n]
                       /\ \A m \in 1..6 : scores[order[m]] <= scores[got]
                       /\ \A m \in 1..(n - 1) : scores[order[m]] < scores[got]

\* compatibility and diagnose both score 1, every other intent 0, and the
\* text was classified compatibility
C22_Witness ==
    /\ probe.checked
    /\ probe.text = "My dishwasher pump is too loud, is that right, please help"
    /\ intent_scores(lower(probe.text))["compatibility"] = 1
    /\ intent_scores(lower(probe.text))["diagnose"] = 1
    /\ intent_scores(lower(probe.text))["lookup"] = 0
    /\ probe.rule_based_intent = "compatibility"


\* C23: for a cart turn the sub-query is "add:{part_number}:{quantity}"
\* exactly when the action is add and a part number was extracted,
\* "remove:{part_number}" exactly when the action is remove and a part
\* number was extracted, "clear" exactly when the action is clear, and
\* "view" otherwise; the action is chosen by priority add, remove, view,
\* clear with view as default; and the follow-up text corresponds to the
\* operation that was sent to the handler.  The cart turns are the calls
\* that await the cart handler and the completed call it answered; the text
\* of such a turn is the one handed to _run_tool_for_intent.
C23_CartSubQueryAndFollowUp ==
    \A turn \in {inflight[c] : c \in Callers} \cup {last} :
        (turn.intent = "cart" /\ turn.handler_calls = 1) =>
            LET t == lower(turn.tool_input)
                has(p) == Contains(t, p)
                p == turn.params
                part == "part_number" \in DOMAIN p
                q == turn.sub_query
            IN  /\ p["action"] = IF has("add") \/ has("put") THEN "add"
                                 ELSE IF has("remove") \/ has("delete") THEN "remove"
                                 ELSE IF has("view") \/ has("show") \/ has("what") THEN "view"
                                 ELSE IF has("clear") \/ has("empty") THEN "clear"
                                 ELSE "view"
                /\ q = IF p["action"] = "add" /\ part
                       THEN "add:" \o p["part_number"] \o ":" \o p["quantity"]
                       ELSE IF p["action"] = "remove" /\ part THEN "remove:" \o p["part_number"]
                       ELSE IF p["action"] = "clear" THEN "clear"
                       ELSE "view"
                /\ (turn = last /\ last.handler_outcome = "returned") =>
                       /\ last.tool_name = "cart_tool"
                       /\ last.follow_up =
                              IF startswith(q, "add:")
                              THEN "Would you like to view your cart or continue shopping?"
                              ELSE IF q = "view"
                              THEN "Would you like to checkout or continue shopping?"
                              ELSE "Is there anything else you'd like to do with your cart?"

\* "Add to cart" was rewritten to the addition of the stored part, sent to
\* the cart handler as "add:W10295370A:1" and answered with the follow-up of
\* an addition, while "Is it in my cart?", rewritten to "View my cart", waits
\* in the cart handler with "view"
C23_Witness ==
    /\ last.user_input = "Add to cart"
    /\ last.route = "context"
    /\ last.intent = "cart"
    /\ last.tool_input = "Add part W10295370A to my cart"
    /\ last.params["action"] = "add"
    /\ last.sub_query = "add:W10295370A:1"
    /\ last.handler_outcome = "returned"
    /\ last.follow_up = "Would you like to view your cart or continue shopping?"
    /\ \E c \in Callers :
          /\ inflight[c].user_input = "Is it in my cart?"
          /\ inflight[c].intent = "cart"
          /\ inflight[c].tool_input = "View my cart"
          /\ inflight[c].params["action"] = "view"
          /\ inflight[c].sub_query = "view"


\* C24: for a text that no earlier scope rule decides (no accepted model
\* number, no out-of-scope term, no appliance keyword, no part keyword, no
\* brand match that qualifies), is_in_scope is true if and only if the text
\* holds "part" and has more than 4 whitespace-separated words; "I need a
\* part" is therefore out of scope.
C24_PartNeedsMoreThanFourWords ==
    probe.checked =>
        LET text_lower == lower(probe.text)
            words == Len(split(text_lower))
            brand == ContainsAny(text_lower, APPLIANCE_BRANDS)
            undecided ==
                /\ ~HasAcceptedModelNumber(probe.text)
                /\ ~HasOutOfScopeTerm(text_lower)
                /\ ~HasInScopeAppliance(text_lower)
                /\ ~ContainsAny(text_lower, PART_KEYWORDS)
                /\ ~(brand /\ (Contains(text_lower, "appliance") \/ words > 4))
        IN  /\ undecided => (probe.in_scope <=> (Contains(text_lower, "part") /\ words > 4))
            /\ probe.text = "I need a part" => ~probe.in_scope

\* a four-word text with "part" that no earlier rule decides was rejected
C24_Witness ==
    /\ probe.checked
    /\ probe.text = "Need part for thing"
    /\ Len(split(lower(probe.text))) = 4
    /\ ~HasOutOfScopeTerm(lower(probe.text))
    /\ ~ContainsAny(lower(probe.text), PART_KEYWORDS \cup APPLIANCE_BRANDS)
    /\ ~probe.in_scope


\* C25: in the classify-and-dispatch flow the context update runs whatever
\* the dispatch outcome: after a turn that ended with tool_name "error"
\* (the handler raised) or "unknown_intent" (no handler registered),
\* last_intent is the attempted intent and every slot extracted from the
\* text is stored in its context field.
C25_ContextUpdatedAfterFailedDispatch ==
    LET slot == [last_part_number |-> "part_number", last_part_name |-> "part_name",
                 last_model_number |-> "model_number",
                 last_appliance_type |-> "appliance_type"]
        params == Parameters(last.intent, last.user_input)
    IN  (last.route = "classified" /\ last.tool_name \in {"error", "unknown_intent"}) =>
            /\ conversation_context.last_intent = last.intent
            /\ \A f \in DOMAIN slot :
                  slot[f] \in DOMAIN params => conversation_context[f] = params[slot[f]]

\* the handler of a classified lookup turn raised on an agent that held
\* another turn's label, and the turn's label and part name are stored
C25_Witness ==
    /\ last.route = "classified"
    /\ last.handler_outcome = "raised"
    /\ last.tool_name = "error"
    /\ last.intent = "lookup"
    /\ "part_name" \in DOMAIN last.params
    /\ conversation_context.last_intent = "lookup"
    /\ conversation_context.last_part_name = last.params["part_name"]
    /\ conversation_context.last_appliance_type = "dishwasher"


\* C26: the chat server keeps one agent and so one conversation context for
\* all connections: when the last classified turn was made by connection A
\* and stored its entities, a context-dependent follow-up of another
\* connection B that a rule applies to is resolved against the part name,
\* part number and appliance type A's turn stored, so B's reply depends on
\* A's message.
C26_FollowUpUsesOtherConnectionsContext ==
    [][\A c \in Callers : \A q \in Texts :
          LET ctx == conversation_context
              call == inflight'[c]
              slot == [last_part_number |-> "part_number", last_part_name |-> "part_name",
                       last_model_number |-> "model_number",
                       last_appliance_type |-> "appliance_type"]
              began == \/ inflight[c] = Idle /\ call # Idle /\ call.user_input = q
                       \/ /\ inflight' = inflight /\ last' # last
                          /\ last'.caller = c /\ last'.user_input = q
              rewrite == EnhanceFirstChain(Analysis(q).query_lower, ctx)
          IN  (/\ began
               /\ last.caller \in Callers \ {c}
               /\ last.route = "classified"
               /\ last.outcome = "returned"
               /\ is_context_dependent_query(q, ctx)
               /\ rewrite # NoEnhancement)
              => /\ \A f \in DOMAIN slot :
                       slot[f] \in DOMAIN last.params => ctx[f] = last.params[slot[f]]
                 /\ inflight[c] = Idle /\ call # Idle /\ call.user_input = q
                 /\ call.route = "context"
                 /\ call.intent = rewrite[1]
                 /\ call.tool_input = rewrite[2]
                 /\ call.sub_query = SubQuery(call.intent, call.params, call.tool_input)
                 /\ (rewrite[1] = "install" /\ "part_name" \in DOMAIN last.params)
                       => Contains(call.sub_query, last.params["part_name"])]_vars

\* connection B's "How do I install it?" waits in the install handler with
\* the part name that connection A's lookup stored
C26_Witness ==
    /\ last.caller = "A"
    /\ last.user_input = "I need a water filter for my refrigerator"
    /\ last.route = "classified"
    /\ inflight["B"].user_input = "How do I install it?"
    /\ inflight["B"].route = "context"
    /\ inflight["B"].sub_query = "water filter:refrigerator"
    /\ inflight["A"] = Idle


(***************************************************************************)
(* ws_server_simple_backup.py: ConnectionManager and the cart store.  Each *)
(* connection is a websocket; websocket_endpoint connects it, handles its  *)
(* messages with the session id of the connection and disconnects it.      *)
(***************************************************************************)
NumSockets == 3
MaxItems == 2

Sockets == {"ws" \o ToString(i) : i \in 1..NumSockets}

InitConn ==
    /\ manager = NoConnections
    /\ cart_store = << >>
    /\ conversation_context = InitialContext
    /\ intent_classification_tool = FALSE
    /\ inflight = [c \in Callers |-> Idle]
    /\ last = NoTurn
    /\ probe = NoProbe

\* lines 284-292: the session id is built from the number of active connections
connect(websocket) ==
    LET active == Append(manager.active_connections, websocket)
        session_id == "user_" \o ToString(Len(active))
    IN  /\ websocket \notin Range(manager.active_connections)
        /\ manager' = [active_connections |-> active,
                       user_sessions |-> Put(manager.user_sessions, websocket, session_id)]
        /\ cart_store' = Put(cart_store, session_id, << >>)
        /\ UNCHANGED <<conversation_context, intent_classification_tool, inflight, last, probe>>

\* lines 294-303
disconnect(websocket) ==
    LET sessions == manager.user_sessions
        Without(f, k) == [x \in DOMAIN f \ {k} |-> f[x]]
    IN  /\ websocket \in Range(manager.active_connections)
        /\ manager' = [active_connections |->
                           SelectSeq(manager.active_connections, LAMBDA w : w # websocket),
                       user_sessions |-> Without(sessions, websocket)]
        /\ cart_store' = IF websocket \in DOMAIN sessions
                         THEN Without(cart_store, sessions[websocket])
                         ELSE cart_store
        /\ UNCHANGED <<conversation_context, intent_classification_tool, inflight, last, probe>>

\* lines 536 and 459-468: a message that adds to the cart of the connection's session
AddToCart(websocket) ==
    LET session_id == Get(manager.user_sessions, websocket, "unknown")
        user_cart == Get(cart_store, session_id, << >>)
    IN  /\ websocket \in Range(manager.active_connections)
        /\ Len(user_cart) < MaxItems
        /\ cart_store' = Put(cart_store, session_id, Append(user_cart, "DA29-00020B"))
        /\ UNCHANGED <<conversation_context, intent_classification_tool, inflight, last, probe,
                       manager>>

NextConn ==
    \E websocket \in Sockets :
        connect(websocket) \/ disconnect(websocket) \/ AddToCart(websocket)

SpecConn == InitConn /\ [][NextConn]_vars

\* C27: after any sequence of connect and disconnect operations the session
\* ids of the connected websockets are pairwise distinct, so no two
\* connected clients share a cart_store entry, and connecting or
\* disconnecting one client never resets or deletes the cart of another
\* connected client.
C27_SessionIdsDistinct ==
    \A w1, w2 \in DOMAIN manager.user_sessions :
        w1 # w2 => manager.user_sessions[w1] # manager.user_sessions[w2]


\* extract_intent answers out_of_scope for exactly the texts is_in_scope rejects
RejectsExactlyOutOfScope ==
    \A q \in Texts : (extract_intent(q) = "out_of_scope") <=> ~is_in_scope(q)

\* C28: once the scope check has passed, the label after the diagnose
\* override is never out_of_scope, because extract_intent answers
\* out_of_scope exactly when is_in_scope rejects the same text; so
\* process_query, for every text and context and with or without an LLM
\* classifier, never calls the classifier and never returns the second
\* out_of_scope reply with the follow-up hint.
C28_FallbackNeverTaken ==
    /\ RejectsExactlyOutOfScope
    /\ \A q \in Texts : Analysis(q).in_scope => Analysis(q).intent # "out_of_scope"
    /\ last.llm_calls = 0
    /\ \A c \in Callers : inflight[c].llm_calls = 0
    /\ last.route # "fallback"
    /\ last.tool_name = "out_of_scope" =>
          /\ last.route = "scope"
          /\ last.result = ScopeRejection.result
          /\ last.follow_up = None
          /\ ~Analysis(last.user_input).in_scope

\* an agent built with the LLM classifier has classified and dispatched an
\* in-scope text without asking the classifier
C28_Witness ==
    /\ intent_classification_tool
    /\ last.route = "classified"
    /\ Analysis(last.user_input).in_scope
    /\ last.intent = "compatibility"
    /\ last.llm_calls = 0
    /\ last.handler_calls = 1


\* C29: in every state reachable by process_query calls, last_intent is
\* unset or one of lookup, compatibility, install, diagnose, order, status;
\* it is never cart and never out_of_scope, although cart handlers are
\* dispatched through context resolution.
C29_LastIntentIsAClassifierLabel ==
    conversation_context.last_intent \in
        {None, "lookup", "compatibility", "install", "diagnose", "order", "status"}

\* the cart handler answered a turn resolved from context and last_intent
\* still holds the label of the earlier classified turn
C29_Witness ==
    /\ last.route = "context"
    /\ last.intent = "cart"
    /\ last.tool_name = "cart_tool"
    /\ last.handler_calls = 1
    /\ conversation_context.last_intent = "diagnose"


\* C30 (as stated): no handler is ever invoked for a text that is_in_scope
\* rejects: for every context, a process_query call whose text is out of
\* scope returns tool_name "out_of_scope", also when the text is a short or
\* pronoun-based follow-up and the context holds entities of earlier turns.
C30_NoHandlerForOutOfScopeText ==
    /\ \A c \in Callers :
          inflight[c] # Idle => Analysis(inflight[c].user_input).in_scope
    /\ (last # NoTurn /\ ~Analysis(last.user_input).in_scope) =>
          /\ last.tool_name = "out_of_scope"
          /\ last.handler_calls = 0

\* C30 (amended): a handler is invoked for a text that is_in_scope rejects
\* only when the turn is resolved from context, which happens before the
\* scope check and needs a context-dependent text and a stored last_intent;
\* every other call whose text is out of scope returns tool_name
\* "out_of_scope" without calling a handler.
C30_OutOfScopeTextHandledOnlyFromContext ==
    /\ \A c \in Callers :
          (inflight[c] # Idle /\ ~Analysis(inflight[c].user_input).in_scope) =>
              /\ inflight[c].route = "context"
              /\ is_context_dependent_query(inflight[c].user_input, conversation_context)
              /\ Truthy(conversation_context.last_intent)
    /\ (last # NoTurn /\ ~Analysis(last.user_input).in_scope) =>
          IF last.route = "context"
          THEN last.handler_calls = 1 /\ last.tool_name # "out_of_scope"
          ELSE /\ last.route = "scope"
               /\ last.tool_name = "out_of_scope"
               /\ last.handler_calls = 0

\* a short follow-up that is_in_scope rejects waits in a handler, and an
\* out-of-scope text that was not resolved from context was rejected before
C30_Witness ==
    /\ \E c \in Callers :
          /\ inflight[c].route = "context"
          /\ inflight[c].handler_calls = 1
          /\ ~Analysis(inflight[c].user_input).in_scope
          /\ Len(Analysis(inflight[c].user_input).tokens) <= 5
    /\ last.route = "scope"
    /\ last.tool_name = "out_of_scope"
    /\ Truthy(conversation_context.last_part_name)

====
